---------------------------- MODULE Spec2Model ----------------------------
(***************************************************************************)
(* polymer-cli: one run of the `request` command.                          *)
(*                                                                         *)
(*   cmd/polymer-cli/cmd/request.go  RunE, processTransactionByHash,       *)
(*                                   waitAndDisplayProof                   *)
(*   pkg/api/client.go               RequestProof, GetProofStatus,         *)
(*                                   WaitForProof                          *)
(*   pkg/rpc/client.go               GetTransaction, GetTransactionReceipt,*)
(*                                   GetEventSignatureHash, HexToUint64,   *)
(*                                   Config.Validate                       *)
(*                                                                         *)
(* Text the code inspects character by character (hex and decimal          *)
(* numerals, event signatures, topics, job identifiers) is a sequence of   *)
(* one-character strings.  Text the code only compares with "" or with a   *)
(* literal (API key, RPC URL, status) is a TLA+ string.                    *)
(*                                                                         *)
(* Unsigned integers are kept at full width: a number is the sequence of   *)
(* its base-16 digits, most significant first, without leading zeros       *)
(* (<<>> is 0).  Go's int and uint are 64 bits wide (amd64/arm64 builds).  *)
(***************************************************************************)
EXTENDS Integers, Sequences, FiniteSets, TLC

(***************************************************************************)
(* Bounds of the model.                                                    *)
(***************************************************************************)
\* Largest max-attempts value a configuration is drawn with.
MaxAttemptsBound == 5
\* Largest number of logs in a drawn receipt.
MaxLogs == 3
\* Largest number of base-16 digits of the numbers drawn in full.
MaxHexDigits == 2

(***************************************************************************)
(* Numbers.                                                                *)
(***************************************************************************)
RECURSIVE StripZeros(_)
\* Canonical form of a digit sequence: leading zero digits removed.
StripZeros(ds) ==
    IF ds = <<>> THEN <<>>
    ELSE IF Head(ds) = 0 THEN StripZeros(Tail(ds)) ELSE ds

RECURSIVE MulAdd(_, _, _)
\* n * m + a for a number n, a small factor m (<= 16) and a small a (< 16).
MulAdd(n, m, a) ==
    IF n = <<>> THEN (IF a = 0 THEN <<>> ELSE <<a>>)
    ELSE LET t == n[Len(n)] * m + a
         IN  Append(MulAdd(SubSeq(n, 1, Len(n) - 1), m, t \div 16), t % 16)

RECURSIVE NatToNum(_)
\* The number with the value of the (small) natural k.
NatToNum(k) == IF k = 0 THEN <<>> ELSE Append(NatToNum(k \div 16), k % 16)

RECURSIVE NumToNat(_)
\* The value of a number of at most 7 digits (< 2^28) as a natural.
NumToNat(n) ==
    IF n = <<>> THEN 0 ELSE NumToNat(SubSeq(n, 1, Len(n) - 1)) * 16 + n[Len(n)]

\* n >= k for a number n and a small natural k.
NumGeNat(n, k) == IF Len(n) > 7 THEN TRUE ELSE NumToNat(n) >= k

\* n < 2^bits (bits a multiple of 4).
FitsBits(n, bits) == Len(n) * 4 <= bits

RECURSIVE StripZeroBits(_)
StripZeroBits(bs) ==
    IF bs = <<>> THEN <<>>
    ELSE IF Head(bs) = 0 THEN StripZeroBits(Tail(bs)) ELSE bs

\* The binary digits of a number, most significant first, none for 0.
BitsOf(n) ==
    StripZeroBits([i \in 1..(4 * Len(n)) |->
                     (n[((i - 1) \div 4) + 1] \div (2 ^ (3 - ((i - 1) % 4)))) % 2])

\* The number with these binary digits.
NumOfBits(bs) ==
    LET pad == [i \in 1..((4 - (Len(bs) % 4)) % 4) |-> 0] \o bs
    IN  StripZeros([i \in 1..(Len(pad) \div 4) |->
                      8 * pad[4 * i - 3] + 4 * pad[4 * i - 2] + 2 * pad[4 * i - 1] + pad[4 * i]])

RECURSIVE IncBits(_)
\* Binary digits plus one.
IncBits(bs) ==
    IF bs = <<>> THEN <<1>>
    ELSE IF bs[Len(bs)] = 0 THEN SubSeq(bs, 1, Len(bs) - 1) \o <<1>>
    ELSE IncBits(SubSeq(bs, 1, Len(bs) - 1)) \o <<0>>

\* The float64 nearest to a natural number (ties to the even mantissa), as
\* encoding/json's strconv.ParseFloat gives it: 53 significant bits.
Float64Of(n) ==
    LET bs == BitsOf(n)
    IN  IF Len(bs) <= 53 THEN n
        ELSE LET keep   == SubSeq(bs, 1, 53)
                 rest   == SubSeq(bs, 54, Len(bs))
                 sticky == \E i \in 2..Len(rest) : rest[i] = 1
                 up     == rest[1] = 1 /\ (sticky \/ keep[53] = 1)
                 top    == IF up THEN IncBits(keep) ELSE keep
             IN  NumOfBits(top \o [i \in 1..Len(rest) |-> 0])

RECURSIVE DivMod10(_, _, _)
\* Long division of a number by ten: quotient (with leading zeros) and
\* remainder.
DivMod10(n, q, r) ==
    IF n = <<>> THEN [q |-> q, r |-> r]
    ELSE LET cur == r * 16 + Head(n)
         IN  DivMod10(Tail(n), Append(q, cur \div 10), cur % 10)

RECURSIVE DecOf(_)
\* The decimal numeral of a number.
DecOf(n) ==
    LET dm == DivMod10(n, <<>>, 0)
        d  == <<"0", "1", "2", "3", "4", "5", "6", "7", "8", "9">>[dm.r + 1]
    IN  IF StripZeros(dm.q) = <<>> THEN <<d>> ELSE Append(DecOf(StripZeros(dm.q)), d)


\* The value of a decimal digit character, -1 for any other character.
DecDigit(c) ==
    CASE c = "0" -> 0 [] c = "1" -> 1 [] c = "2" -> 2 [] c = "3" -> 3
      [] c = "4" -> 4 [] c = "5" -> 5 [] c = "6" -> 6 [] c = "7" -> 7
      [] c = "8" -> 8 [] c = "9" -> 9 [] OTHER -> -1

RECURSIVE NumOfDec(_, _)
\* The number a decimal numeral names.
NumOfDec(s, acc) ==
    IF s = <<>> THEN acc ELSE NumOfDec(Tail(s), MulAdd(acc, 10, DecDigit(Head(s))))

\* The value of a base-16 digit character (either case), -1 for any other.
HexDigit(c) ==
    CASE c \in {"a", "A"} -> 10 [] c \in {"b", "B"} -> 11
      [] c \in {"c", "C"} -> 12 [] c \in {"d", "D"} -> 13
      [] c \in {"e", "E"} -> 14 [] c \in {"f", "F"} -> 15
      [] OTHER -> DecDigit(c)

RECURSIVE ParseUintScan(_, _, _)
\* strconv.ParseUint's digit loop in base 10: the first bad character is a
\* syntax error, the first prefix above the maximum a range error.
ParseUintScan(s, acc, bits) ==
    IF s = <<>> THEN [ok |-> TRUE, val |-> acc, err |-> "none"]
    ELSE IF DecDigit(Head(s)) < 0
         THEN [ok |-> FALSE, val |-> <<>>, err |-> "syntax"]
    ELSE LET next == MulAdd(acc, 10, DecDigit(Head(s)))
         IN  IF ~FitsBits(next, bits)
             THEN [ok |-> FALSE, val |-> <<>>, err |-> "range"]
             ELSE ParseUintScan(Tail(s), next, bits)

\* strconv.ParseUint(s, 10, bits).
ParseUint(s, bits) ==
    IF s = <<>> THEN [ok |-> FALSE, val |-> <<>>, err |-> "syntax"]
    ELSE ParseUintScan(s, <<>>, bits)

\* The digits of a base-16 numeral, or <<-1>> when a character is no digit.
HexDigits(s) == [i \in 1..Len(s) |-> HexDigit(s[i])]

\* big.Int.SetString(s, 16): an optional sign, then one or more base-16
\* digits and nothing else.
SetString16(s) ==
    LET signed == s # <<>> /\ Head(s) \in {"+", "-"}
        body   == IF signed THEN Tail(s) ELSE s
        ds     == HexDigits(body)
        ok     == body # <<>> /\ \A i \in 1..Len(ds) : ds[i] >= 0
        abs    == IF ok THEN StripZeros(ds) ELSE <<>>
    IN  [ok |-> ok, abs |-> abs,
         neg |-> ok /\ signed /\ Head(s) = "-" /\ abs # <<>>]

\* A conversion that leaves out the IsUint64 test.
HexToUint64Unchecked(hex) ==
    LET stripped == IF Len(hex) >= 2 /\ SubSeq(hex, 1, 2) = <<"0", "x">>
                    THEN SubSeq(hex, 3, Len(hex)) ELSE hex
        v        == SetString16(stripped)
    IN  IF hex = <<"0", "x", "0">> THEN [ok |-> TRUE, val |-> <<>>, err |-> "none"]
        ELSE IF ~v.ok THEN [ok |-> FALSE, val |-> <<>>, err |-> "invalid hex"]
        ELSE [ok |-> TRUE, val |-> v.abs, err |-> "none"]

\* rpc.HexToUint64.
HexToUint64(hex) ==
    LET stripped == IF Len(hex) >= 2 /\ SubSeq(hex, 1, 2) = <<"0", "x">>
                    THEN SubSeq(hex, 3, Len(hex)) ELSE hex
        v        == SetString16(stripped)
    IN  IF hex = <<"0", "x", "0">> THEN [ok |-> TRUE, val |-> <<>>, err |-> "none"]
        ELSE IF ~v.ok THEN [ok |-> FALSE, val |-> <<>>, err |-> "invalid hex"]
        ELSE IF v.neg \/ ~FitsBits(v.abs, 64)
             THEN [ok |-> FALSE, val |-> <<>>, err |-> "too large"]
        ELSE [ok |-> TRUE, val |-> v.abs, err |-> "none"]

(***************************************************************************)
(* Text.                                                                   *)
(***************************************************************************)
Uppers == <<"A","B","C","D","E","F","G","H","I","J","K","L","M",
            "N","O","P","Q","R","S","T","U","V","W","X","Y","Z">>
Lowers == <<"a","b","c","d","e","f","g","h","i","j","k","l","m",
            "n","o","p","q","r","s","t","u","v","w","x","y","z">>

\* The lower-case form of an ASCII letter; any other character is itself.
ToLower(c) ==
    IF \E i \in 1..26 : Uppers[i] = c
    THEN Lowers[CHOOSE i \in 1..26 : Uppers[i] = c] ELSE c

\* strings.EqualFold on ASCII text.
EqualFold(s, t) ==
    /\ Len(s) = Len(t)
    /\ \A i \in 1..Len(s) : ToLower(s[i]) = ToLower(t[i])

\* unicode.IsSpace, which strings.TrimSpace applies to each character: the
\* 25 characters of Unicode's White_Space property.  Tab, line feed,
\* vertical tab (U+000B), form feed, carriage return and space are written as
\* themselves; every character outside ASCII is written by its code point.
WhiteSpace ==
    {"\t", "\n", "", "\f", "\r", " ", "U+0085", "U+00A0", "U+1680",
     "U+2000", "U+2001", "U+2002", "U+2003", "U+2004", "U+2005", "U+2006", "U+2007",
     "U+2008", "U+2009", "U+200A", "U+2028", "U+2029", "U+202F", "U+205F", "U+3000"}
IsSpace(c) == c \in WhiteSpace

RECURSIVE TrimLeft(_)
TrimLeft(s) ==
    IF s # <<>> /\ IsSpace(Head(s)) THEN TrimLeft(Tail(s)) ELSE s

RECURSIVE TrimRight(_)
TrimRight(s) ==
    IF s # <<>> /\ IsSpace(s[Len(s)])
    THEN TrimRight(SubSeq(s, 1, Len(s) - 1)) ELSE s

\* strings.TrimSpace.
TrimSpace(s) == TrimRight(TrimLeft(s))

\* strings.HasPrefix(s, "0x").
Has0xPrefix(s) == Len(s) >= 2 /\ SubSeq(s, 1, 2) = <<"0", "x">>

(***************************************************************************)
(* Arithmetic on long numbers, as strconv does it on its decimal type.  A  *)
(* number is its digits in base b (2, 10 or 16), most significant first,   *)
(* none for zero.                                                          *)
(***************************************************************************)
\* Digits without the zeros in front.
Strip(ds) ==
    IF \A i \in 1..Len(ds) : ds[i] = 0 THEN <<>>
    ELSE SubSeq(ds, CHOOSE i \in 1..Len(ds) : ds[i] # 0 /\ \A j \in 1..(i - 1) : ds[j] = 0,
                Len(ds))

\* The carry into place i of the sums s of two digits each: the nearest
\* place behind i that does not hand a carry on makes one or does not.
CarryInto(s, i, b) ==
    IF \A j \in (i + 1)..Len(s) : s[j] = b - 1 THEN 0
    ELSE IF s[CHOOSE j \in (i + 1)..Len(s) :
                 s[j] # b - 1 /\ \A k \in (i + 1)..(j - 1) : s[k] = b - 1] >= b
         THEN 1 ELSE 0

\* The digits in base b of the number with the sums s, none above 2b - 2.
Carried(s, b) == Strip([i \in 1..Len(s) |-> (s[i] + CarryInto(s, i, b)) % b])

\* The digit of x at place i of n, x standing to the right.
DigitAt(x, i, n) == IF i > n - Len(x) THEN x[i - (n - Len(x))] ELSE 0

\* The sums, place by place, of x and y with n places.
SumDigits(x, y, n) == [i \in 1..n |-> DigitAt(x, i, n) + DigitAt(y, i, n)]

\* x + y in base b.
AddNum(x, y, b) ==
    Carried(SumDigits(x, y, (IF Len(x) > Len(y) THEN Len(x) ELSE Len(y)) + 1), b)

\* One place more in front: what is above b - 1 in a place counts b times
\* as much one place up.
Settle(ds, b) ==
    [i \in 1..(Len(ds) + 1) |-> (IF i > 1 THEN ds[i - 1] % b ELSE 0)
                                + (IF i <= Len(ds) THEN ds[i] \div b ELSE 0)]

RECURSIVE Normal(_, _)
\* The digits in base b of the number whose places hold the naturals ds.
Normal(ds, b) ==
    IF \A i \in 1..Len(ds) : ds[i] <= 2 * b - 2 THEN Carried(<<0>> \o ds, b)
    ELSE Normal(Settle(ds, b), b)

\* n * m in base b, for m below 2^24.
MulSmall(n, m, b) == Normal([i \in 1..Len(n) |-> n[i] * m], b)

\* How many factors m go into one multiplication.
Chunk(m) == CASE m = 2 -> 24 [] m = 5 -> 10 [] m = 10 -> 7 [] m = 16 -> 6

RECURSIVE MulPow(_, _, _, _)
\* n * m^k in base b, for m = 2, 5, 10 or 16.
MulPow(n, m, k, b) ==
    IF n = <<>> THEN <<>>
    ELSE IF k <= Chunk(m) THEN MulSmall(n, m ^ k, b)
    ELSE MulPow(MulPow(n, m, k \div 2, b), m, k - k \div 2, b)

RECURSIVE Convert(_, _, _)
\* The digits in base `to` of the number with the digits n in base `from`.
Convert(n, from, to) ==
    IF n = <<>> THEN <<>>
    ELSE IF Len(n) = 1 THEN Normal(n, to)
    ELSE AddNum(MulPow(Convert(SubSeq(n, 1, Len(n) \div 2), from, to),
                       from, Len(n) - Len(n) \div 2, to),
                Convert(SubSeq(n, Len(n) \div 2 + 1, Len(n)), from, to), to)

(***************************************************************************)
(* Binary floating point.  A finite float64 is a sequence of binary digits *)
(* (most significant first, at most 53, the last one 1) and the power of   *)
(* two that scales it; zero has no digits.  strconv.ParseFloat gives the   *)
(* float64 nearest to the literal it reads, ties to the even mantissa, and *)
(* encoding/json writes a float64 with the fewest decimal digits that read *)
(* back as the same float64.                                               *)
(***************************************************************************)
Float(mant, exp) == [mant |-> mant, exp |-> exp]
FloatZero == Float(<<>>, 0)
\* The result of a conversion that leaves the float64 range (2^1024).
FloatHuge == Float(<<1>>, 1024)

\* The float with the binary digits bs (the first one 1) scaled by 2^e,
\* without the zeros at their end.
TrimBits(bs, e) ==
    IF bs = <<>> THEN FloatZero
    ELSE Float(SubSeq(bs, 1, CHOOSE n \in 1..Len(bs) :
                                 bs[n] = 1 /\ \A j \in (n + 1)..Len(bs) : bs[j] = 0),
               e + Len(bs) - (CHOOSE n \in 1..Len(bs) :
                                 bs[n] = 1 /\ \A j \in (n + 1)..Len(bs) : bs[j] = 0))

\* The float64 nearest to bs * 2^t, or to a little more than that when
\* sticky: the last digit kept counts 2^(t + Len(bs) - 53), and never less
\* than 2^-1074; what is dropped rounds to nearest, ties to even.
RoundFloat64(bs, t, sticky) ==
    LET L    == Len(bs)
        u    == IF t + L - 53 >= -1074 THEN t + L - 53 ELSE -1074
        drop == u - t
    IN  IF bs = <<>> \/ drop > L THEN FloatZero
        ELSE IF drop <= 0 THEN TrimBits(bs, t)
        ELSE LET keep == SubSeq(bs, 1, L - drop)
                 rest == SubSeq(bs, L - drop + 1, L)
                 more == sticky \/ \E i \in 2..Len(rest) : rest[i] = 1
                 odd  == keep # <<>> /\ keep[Len(keep)] = 1
                 up   == rest[1] = 1 /\ (more \/ odd)
             IN  TrimBits(IF up THEN AddNum(keep, <<1>>, 2) ELSE keep, u)

\* The value is 2^1024 or more: ParseFloat's range error.
Overflows(f) == Len(f.mant) + f.exp > 1024

\* The float64 nearest to the whole part of n / 10^q, n in base 10, scaled
\* by 2^t; what the division leaves over is sticky.
RoundQuotient(n, q, t) ==
    RoundFloat64(BitsOf(Convert(SubSeq(n, 1, Len(n) - q), 10, 16)), t,
                 \E i \in (Len(n) - q + 1)..Len(n) : n[i] # 0)

\* The float64 nearest to ds * 10^e, ds the digits of a number in base 10.
\* A value of 10^310 or more is out of range and one below 10^-330 rounds
\* to zero; a negative power of ten is cut off ds * 2^s, with s large
\* enough to leave 64 binary digits or more.
DecimalToFloat(ds, e) ==
    IF ds = <<>> THEN FloatZero
    ELSE IF Len(ds) + e > 310 THEN FloatHuge
    ELSE IF Len(ds) + e < -330 THEN FloatZero
    ELSE IF e >= 0 THEN RoundFloat64(BitsOf(MulPow(Convert(ds, 10, 16), 10, e, 16)), 0, FALSE)
    ELSE RoundQuotient(MulPow(ds, 2, (10 * (-e)) \div 3 + 65, 10), -e,
                       -((10 * (-e)) \div 3 + 65))

(***************************************************************************)
(* strconv.ParseFloat(s, 64).                                              *)
(***************************************************************************)
\* strconv.ParseFloat accepts the words inf, infinity (signed or not) and nan.
IsSpecialFloat(s) ==
    LET signed == s # <<>> /\ Head(s) \in {"+", "-"}
        body   == IF signed THEN Tail(s) ELSE s
        low    == [i \in 1..Len(body) |-> ToLower(body[i])]
    IN  \/ low \in {<<"i","n","f">>, <<"i","n","f","i","n","i","t","y">>}
        \/ ~signed /\ low = <<"n","a","n">>

\* A digit of a literal: decimal, or base 16 behind the prefix 0x.
IsDigitOf(c, hex) == IF hex THEN HexDigit(c) >= 0 ELSE DecDigit(c) >= 0

\* readFloat's mantissa loop goes on over digits, underscores and the first
\* point.
InMantissa(t, hex, i) ==
    \/ t[i] = "_"
    \/ IsDigitOf(t[i], hex)
    \/ t[i] = "." /\ \A j \in (IF hex THEN 3 ELSE 1)..(i - 1) : t[j] # "."

\* Where the mantissa of the unsigned literal t ends.
MantissaEnd(t, hex) ==
    CHOOSE n \in (IF hex THEN 2 ELSE 0)..Len(t) :
        /\ \A i \in (IF hex THEN 3 ELSE 1)..n : InMantissa(t, hex, i)
        /\ n = Len(t) \/ ~InMantissa(t, hex, n + 1)

\* strconv's underscoreOK: an underscore stands between two digits, or
\* between the prefix 0x and a digit.
UnderscoreOK(t, hex) ==
    \A i \in (IF hex THEN 3 ELSE 1)..Len(t) :
        t[i] = "_" => /\ IF i = 3 /\ hex THEN TRUE ELSE i > 1 /\ IsDigitOf(t[i - 1], hex)
                      /\ i < Len(t) /\ IsDigitOf(t[i + 1], hex)

RECURSIVE ExponentOf(_, _)
\* readFloat's exponent: the digits count up to 10000 and no further.
ExponentOf(s, acc) ==
    IF s = <<>> THEN acc
    ELSE ExponentOf(Tail(s), IF acc < 10000 THEN acc * 10 + DecDigit(Head(s)) ELSE acc)

\* The characters of s that are no underscore.
NoUnderscores(s) == SelectSeq(s, LAMBDA c : c # "_")

\* readFloat on the mantissa m and what follows it: whether the literal is
\* well formed, its digits (in base 16 or 10) and the power (of two for
\* base 16, else of ten) that scales them.
ReadParts(neg, t, hex, m, rest) ==
    LET dots   == {i \in 1..Len(m) : m[i] = "."}
        dot    == IF dots = {} THEN Len(m) + 1 ELSE CHOOSE i \in dots : TRUE
        whole  == NoUnderscores(SubSeq(m, 1, dot - 1))
        frac   == NoUnderscores(SubSeq(m, dot + 1, Len(m)))
        hasExp == rest # <<>> /\ ToLower(rest[1]) = (IF hex THEN "p" ELSE "e")
        e0     == IF hasExp THEN Tail(rest) ELSE <<>>
        esign  == e0 # <<>> /\ e0[1] \in {"+", "-"}
        e1     == IF esign THEN Tail(e0) ELSE e0
        ev     == ExponentOf(NoUnderscores(e1), 0)
        exp    == IF esign /\ e0[1] = "-" THEN -ev ELSE ev
    IN  [ok   |-> /\ whole \o frac # <<>>
                  /\ IF hasExp
                     THEN /\ e1 # <<>> /\ DecDigit(e1[1]) >= 0
                          /\ \A i \in 1..Len(e1) : e1[i] = "_" \/ DecDigit(e1[i]) >= 0
                     ELSE rest = <<>> /\ ~hex
                  /\ UnderscoreOK(t, hex),
         neg  |-> neg,
         hex  |-> hex,
         mant |-> Strip(HexDigits(whole \o frac)),
         exp  |-> IF hex THEN exp - 4 * Len(frac) ELSE exp - Len(frac)]

\* The mantissa of the unsigned literal t ends at n.
ReadMantissa(neg, t, hex, n) ==
    ReadParts(neg, t, hex, SubSeq(t, IF hex THEN 3 ELSE 1, n), SubSeq(t, n + 1, Len(t)))

\* The unsigned literal t, in base 16 or not.
ReadBase(neg, t, hex) == ReadMantissa(neg, t, hex, MantissaEnd(t, hex))

\* A literal starts with 0x (or 0X) when more follows.
ReadUnsigned(neg, t) ==
    ReadBase(neg, t, Len(t) > 2 /\ t[1] = "0" /\ t[2] \in {"x", "X"})

\* strconv's readFloat on the whole of s: an optional sign, digits in base
\* 10 or (behind 0x) 16 with at most one point, and an exponent (e, or p
\* for base 16, which must have one).
ReadFloat(s) ==
    ReadUnsigned(s # <<>> /\ Head(s) = "-",
                 IF s # <<>> /\ Head(s) \in {"+", "-"} THEN Tail(s) ELSE s)

\* The float64 the literal that readFloat read names, sign apart.
Float64OfRead(r) ==
    IF r.hex THEN RoundFloat64(BitsOf(r.mant), r.exp, FALSE)
    ELSE DecimalToFloat(r.mant, r.exp)

\* A literal that is well formed and within the float64 range.
InRange(r) == r.ok /\ ~Overflows(Float64OfRead(r))

\* Whether strconv.ParseFloat(s, 64) returns no error: s is a special word,
\* or a literal within the float64 range.
ParseFloatOk(s) == IsSpecialFloat(s) \/ InRange(ReadFloat(s))

(***************************************************************************)
(* strconv's shortest formatting, which encoding/json uses.                *)
(***************************************************************************)
\* The exact decimal expansion of a float that is not zero: its digits d
\* in base 10, standing for d * 10^e.
ExactDec(f) ==
    IF f.exp >= 0
    THEN [d |-> MulPow(Convert(f.mant, 2, 10), 2, f.exp, 10), e |-> 0]
    ELSE [d |-> MulPow(Convert(f.mant, 2, 10), 5, -f.exp, 10), e |-> f.exp]

\* Whether the digits d, cut after the first k, round up: ties to even.
RoundsUp(d, k) ==
    /\ k < Len(d)
    /\ \/ d[k + 1] > 5
       \/ /\ d[k + 1] = 5
          /\ \/ \E i \in (k + 2)..Len(d) : d[i] # 0
             \/ d[k] % 2 = 1

\* Of the two numerals of k digits around d * 10^e, the one nearer to it
\* (nearer TRUE) or the other one.
Numeral(d, e, k, nearer) ==
    [d |-> IF RoundsUp(d, k) = nearer THEN AddNum(SubSeq(d, 1, k), <<1>>, 10)
                                      ELSE SubSeq(d, 1, k),
     e |-> e + Len(d) - k]

\* Whether the numeral c reads back as the float f.
ReadsBack(c, f) == DecimalToFloat(c.d, c.e) = f

\* How many digits the shortest numeral that reads back as f has: never
\* more than 17, nor more than the exact digits d * 10^e.
ShortestLen(f, d, e) ==
    CHOOSE k \in 1..Len(d) :
        /\ \/ k = Len(d)
           \/ ReadsBack(Numeral(d, e, k, TRUE), f)
           \/ ReadsBack(Numeral(d, e, k, FALSE), f)
        /\ \A j \in 1..(k - 1) : /\ ~ReadsBack(Numeral(d, e, j, TRUE), f)
                                 /\ ~ReadsBack(Numeral(d, e, j, FALSE), f)

\* The shortest numeral that reads back as f, whose exact digits are
\* d * 10^e: of the two numerals of k digits the nearer one if it reads
\* back, else the other one.
ShortestOf(f, d, e, k) ==
    IF k = Len(d) THEN [d |-> d, e |-> e]
    ELSE IF ReadsBack(Numeral(d, e, k, TRUE), f) THEN Numeral(d, e, k, TRUE)
    ELSE Numeral(d, e, k, FALSE)

\* The digits c.d * 10^(c.e) as digits (none of them a zero at the end) and
\* the place of the decimal point, the value being 0.digits * 10^dp.
PointOf(c) ==
    [digits |-> SubSeq(c.d, 1, CHOOSE n \in 1..Len(c.d) :
                                   c.d[n] # 0 /\ \A j \in (n + 1)..Len(c.d) : c.d[j] = 0),
     dp     |-> Len(c.d) + c.e]

\* The shortest digits of f, whose exact expansion is x.
ShortestFor(f, x) == PointOf(ShortestOf(f, x.d, x.e, ShortestLen(f, x.d, x.e)))

\* strconv's shortest formatting of a float that is not zero.
ShortestDec(f) == ShortestFor(f, ExactDec(f))

\* The characters of decimal digits.
DigitChars(ds) ==
    [i \in 1..Len(ds) |-> <<"0", "1", "2", "3", "4", "5", "6", "7", "8", "9">>[ds[i] + 1]]

\* The decimal numeral of a small natural that is not zero.
NumeralOf(k) == DigitChars(Normal(<<k>>, 10))

\* The text of the digits s with the point at s.dp: in full from 1e-6 up
\* to 1e21, with an exponent outside (encoding/json writes e-7, not e-07).
FloatText(s) ==
    LET ds == DigitChars(s.digits)
        nd == Len(s.digits)
        dp == s.dp
    IN  IF dp >= -5 /\ dp <= 21
        THEN IF dp <= 0
             THEN <<"0", ".">> \o [i \in 1..(-dp) |-> "0"] \o ds
             ELSE IF dp >= nd THEN ds \o [i \in 1..(dp - nd) |-> "0"]
             ELSE SubSeq(ds, 1, dp) \o <<".">> \o SubSeq(ds, dp + 1, nd)
        ELSE <<ds[1]>> \o (IF nd > 1 THEN <<".">> \o Tail(ds) ELSE <<>>)
             \o <<"e">> \o (IF dp < 1 THEN <<"-">> \o NumeralOf(1 - dp)
                                      ELSE <<"+">> \o NumeralOf(dp - 1))

\* encoding/json's floatEncoder: the text json.Marshal writes for a finite
\* float64.
JSONFloat(neg, f) ==
    (IF neg THEN <<"-">> ELSE <<>>)
    \o (IF f = FloatZero THEN <<"0">> ELSE FloatText(ShortestDec(f)))

\* The text for a float64 within range, none beyond it.
WireFloat(neg, f) == IF Overflows(f) THEN <<>> ELSE JSONFloat(neg, f)

\* The text for the literal that readFloat read.
WireOfRead(r) == IF r.ok THEN WireFloat(r.neg, Float64OfRead(r)) ELSE <<>>

\* The text GetProofStatus puts on the wire for a job identifier
\* (api/client.go 143 and 153): the float64 that strconv.ParseFloat gives,
\* as json.Marshal writes it.  No text when the identifier is not a finite
\* number, which GetProofStatus refuses before it sends.
WireJobID(id) == WireOfRead(ReadFloat(id))


(***************************************************************************)
(* Event signatures and their Keccak-256 topic hashes.  The digest is      *)
(* tabulated for the signatures the model draws, with and without white    *)
(* space around them; the values are those sha3.NewLegacyKeccak256 yields  *)
(* for the UTF-8 bytes, as "0x" and 64 lower-case hex digits.              *)
(***************************************************************************)
SigTransfer ==
    <<"T","r","a","n","s","f","e","r","(","a","d","d","r","e","s","s",",","a","d","d","r","e",
      "s","s",",","u","i","n","t","2","5","6",")">>
SigApproval ==
    <<"A","p","p","r","o","v","a","l","(","a","d","d","r","e","s","s",",","a","d","d","r","e",
      "s","s",",","u","i","n","t","2","5","6",")">>
\* Keccak-256 of SigTransfer.
TopicTransfer ==
    <<"0","x","d","d","f","2","5","2","a","d","1","b","e","2","c","8","9","b","6","9","c","2",
      "b","0","6","8","f","c","3","7","8","d","a","a","9","5","2","b","a","7","f","1","6","3",
      "c","4","a","1","1","6","2","8","f","5","5","a","4","d","f","5","2","3","b","3","e","f">>
\* Keccak-256 of SigApproval.
TopicApproval ==
    <<"0","x","8","c","5","b","e","1","e","5","e","b","e","c","7","d","5","b","d","1","4","f",
      "7","1","4","2","7","d","1","e","8","4","f","3","d","d","0","3","1","4","c","0","f","7",
      "b","2","2","9","1","e","5","b","2","0","0","a","c","8","c","7","c","3","b","9","2","5">>
\* Keccak-256 of the empty text.
TopicOfEmpty ==
    <<"0","x","c","5","d","2","4","6","0","1","8","6","f","7","2","3","3","c","9","2","7","e",
      "7","d","b","2","d","c","c","7","0","3","c","0","e","5","0","0","b","6","5","3","c","a",
      "8","2","2","7","3","b","7","b","f","a","d","8","0","4","5","d","8","5","a","4","7","0">>
\* The signature of Transfer behind a character that is not white space
\* (U+00E9), and its Keccak-256 (of the UTF-8 bytes).
SigAccented == <<"U+00E9">> \o SigTransfer
TopicAccented ==
    <<"0","x","4","e","9","2","5","a","9","4","5","4","d","c","a","f","0","e","b","3","e","8",
      "8","2","2","2","d","8","6","7","5","2","2","c","3","2","d","4","1","c","6","6","2","f",
      "3","2","d","d","d","4","c","0","7","2","a","0","3","9","a","b","1","2","4","0","1","7">>
\* The signature of Transfer with white space around it: a space on either
\* side; a vertical tab and a space before, a space and U+2028 after; a
\* no-break space (U+00A0) before.  And a signature that is one space.
SigPadded  == <<" ">> \o SigTransfer \o <<" ">>
SigWrapped == <<"", " ">> \o SigTransfer \o <<" ", "U+2028">>
SigNoBreak == <<"U+00A0">> \o SigTransfer
SigBlank   == <<" ">>
\* TopicTransfer as a node that prints upper-case hex digits reports it.
TopicTransferUpper ==
    <<"0","x","D","D","F","2","5","2","A","D","1","B","E","2","C","8","9","B","6","9","C","2",
      "B","0","6","8","F","C","3","7","8","D","A","A","9","5","2","B","A","7","F","1","6","3",
      "C","4","A","1","1","6","2","8","F","5","5","A","4","D","F","5","2","3","B","3","E","F">>

\* RPCClient.GetEventSignatureHash (it never fails: the hasher's Write
\* returns no error).
GetEventSignatureHash(sig) ==
    CASE sig = SigTransfer -> TopicTransfer
      [] sig = SigApproval -> TopicApproval
      [] sig = <<>>        -> TopicOfEmpty
      [] sig = SigAccented -> TopicAccented
      [] sig = SigPadded ->
           <<"0","x","7","e","7","3","b","b","9","b","1","c","e","2","e","c","2","6","a","7","8","3",
             "2","2","8","c","c","d","6","5","9","3","3","6","d","d","d","d","4","2","3","2","e","e",
             "0","6","e","1","d","c","2","3","d","6","c","b","b","f","1","3","2","4","8","9","5","9">>
      [] sig = SigBlank ->
           <<"0","x","6","8","1","a","f","a","7","8","0","d","1","7","d","a","2","9","2","0","3","3",
             "2","2","b","4","7","3","d","3","f","2","1","0","a","7","d","6","2","1","2","5","9","a",
             "4","e","6","c","e","9","e","4","0","3","f","5","a","2","6","6","f","f","7","1","9","a">>
      [] sig = SigWrapped ->
           <<"0","x","9","1","e","0","3","9","4","f","1","f","9","8","8","e","1","8","2","5","6","b",
             "a","d","e","1","1","9","b","8","2","6","7","f","c","8","c","e","7","6","8","7","5","1",
             "8","3","4","c","0","6","c","0","c","9","d","d","3","1","7","6","3","a","9","0","e","9">>
      [] sig = SigNoBreak ->
           <<"0","x","b","0","2","7","a","d","c","a","7","c","7","5","e","4","a","7","1","d","2","8",
             "9","0","b","0","7","8","6","9","c","7","f","2","4","8","f","a","1","8","a","b","8","b",
             "4","a","4","d","d","0","e","4","4","1","a","8","5","0","6","8","4","c","d","b","7","7">>

(***************************************************************************)
(* State of one run.                                                       *)
(*                                                                         *)
(*   cfg      the configuration viper holds (config.Config)                *)
(*   flags    the command's flag variables (request.go 17-25)              *)
(*   node     what the blockchain node answers for the transaction hash    *)
(*   service  what the proving service may answer to log_requestProof      *)
(*   uintSize the width in bits of int and uint in the build that runs     *)
(*            (the release builds are amd64, arm64 and 386)                *)
(*   pc       where the run is                                             *)
(*   tx       the fetched transaction (rpc.Transaction)                    *)
(*   receipt  the fetched receipt (rpc.TransactionReceipt)                 *)
(*   coords   the coordinates a resolution path built                      *)
(*   answer   the response RequestProof received                           *)
(*   jobID    the job identifier RequestProof returned                     *)
(*   attempt  WaitForProof's loop counter                                  *)
(*   trace    the outbound calls and the sleeps of the run, in order       *)
(*   invocations  the calls of RequestProof and GetProofStatus, in order   *)
(*   stdout   what the run wrote to standard output, in order              *)
(*   status   the status WaitForProof or the status command received       *)
(*   waitRet  how WaitForProof returned                                    *)
(*   result   how the run ended                                            *)
(***************************************************************************)
VARIABLES cfg, flags, node, service, uintSize, pc, tx, receipt, coords, answer, jobID,
          attempt, trace, invocations, stdout, status, waitRet, result

inputs == <<cfg, flags, node, service, uintSize>>
vars   == <<cfg, flags, node, service, uintSize, pc, tx, receipt, coords, answer, jobID,
            attempt, trace, invocations, stdout, status, waitRet, result>>

\* config.DefaultConfig's polling interval, in milliseconds.
DefaultInterval == 3000

\* An error value: the message of the outermost fmt.Errorf, the error it
\* wraps, and the values it cites.
Err(kind, cause, args) == [kind |-> kind, cause |-> cause, args |-> args]
NoErr == Err("none", "none", <<>>)

Running    == [state |-> "running", err |-> NoErr]
Succeeded  == [state |-> "ok", err |-> NoErr]
Failed(e)  == [state |-> "error", err |-> e]

\* api.ProofStatusResponse.
StatusResponse(st, proof, error) == [status |-> st, proof |-> proof, error |-> error]
NoStatus == StatusResponse("", "", "")

NoTx      == [chainId |-> <<>>]
NoReceipt == [blockNumber |-> <<>>, transactionIndex |-> <<>>, logs |-> <<>>]
NoCoords  == [chainID |-> <<>>, blockNumber |-> <<>>, txIndex |-> <<>>,
              logIndex |-> <<>>, built |-> FALSE]

\* An outbound call: its JSON-RPC method, its parameters, whether the
\* exchange gave a result, how it failed otherwise, and the status payload
\* (log_queryProof only).
Call(method, params, outcome, resp) ==
    [ev |-> "call", method |-> method, params |-> params,
     ok |-> outcome = "ok", outcome |-> outcome, resp |-> resp]
\* A time.Sleep of WaitForProof.
SleepEvent(ms) ==
    [ev |-> "sleep", method |-> "", params |-> <<ms>>,
     ok |-> TRUE, outcome |-> "ok", resp |-> NoStatus]

\* How an HTTP exchange fails: Do/Post returns an error, the body cannot be
\* read, the HTTP status is not 200, the body is not a JSON-RPC response, the
\* response carries an error member.
ExchangeFailures == {"transport", "readbody", "http", "badjson", "rpcerror"}

(***************************************************************************)
(* Conversions to the build's int and uint.                                *)
(***************************************************************************)
\* uint(v) of a uint64 v (request.go 107, 108, 200, 273): the low uintSize
\* bits.
UintOf(v) ==
    IF uintSize = 64 \/ Len(v) <= 8 THEN v
    ELSE StripZeros(SubSeq(v, Len(v) - 7, Len(v)))

\* int(v) of a uint64 v is negative (request.go 196): the top bit of the low
\* uintSize bits is set.  No value ParseUint(.., 32) gives has bit 63 set.
IntIsNegative(v) == uintSize = 32 /\ Len(UintOf(v)) = 8 /\ UintOf(v)[1] >= 8

(***************************************************************************)
(* Configuration.                                                          *)
(***************************************************************************)
\* A start that loads the configuration and does not validate it.
ConfigErrorUnvalidated(c) == IF ~c.loaded THEN "failed to load config" ELSE "none"

\* config.LoadConfig followed by Config.Validate, as RunE calls them.
ConfigError(c) ==
    IF ~c.loaded THEN "failed to load config"
    ELSE IF c.apiKey = "" THEN "API key is required"
    ELSE IF c.maxAttempts <= 0 THEN "max-attempts must be greater than 0"
    ELSE IF c.interval <= 0 THEN "interval must be greater than 0"
    ELSE "none"

\* The error LoadConfig's failure wraps (LoadConfig 302-304).
ConfigCause(c) == IF ~c.loaded THEN "failed to unmarshal config" ELSE "none"

(***************************************************************************)
(* Resolution from explicit flags (RunE).                                  *)
(***************************************************************************)
ParseExplicit(f) ==
    LET c == ParseUint(f.chainID, 64)
        b == ParseUint(f.blockNumber, 64)
        t == ParseUint(f.txIndex, 32)
        l == ParseUint(f.logIndex, 32)
    IN  IF ~c.ok THEN [ok |-> FALSE, err |-> Err("invalid chain ID", c.err, <<>>), coords |-> NoCoords]
        ELSE IF ~b.ok THEN [ok |-> FALSE, err |-> Err("invalid block number", b.err, <<>>), coords |-> NoCoords]
        ELSE IF ~t.ok THEN [ok |-> FALSE, err |-> Err("invalid transaction index", t.err, <<>>), coords |-> NoCoords]
        ELSE IF ~l.ok THEN [ok |-> FALSE, err |-> Err("invalid log index", l.err, <<>>), coords |-> NoCoords]
        ELSE [ok |-> TRUE, err |-> NoErr,
              coords |-> [chainID |-> c.val, blockNumber |-> b.val, txIndex |-> t.val,
                          logIndex |-> l.val, built |-> TRUE]]

(***************************************************************************)
(* Resolution from a transaction hash (processTransactionByHash).          *)
(***************************************************************************)
\* A comparison of the first topic that minds the case of the hex digits.
TopicMatchesExactly(topic, hash) == topic = hash

\* The comparison of a log's first topic with the hash of the signature
\* (request.go 233).
TopicMatches(topic, hash) == EqualFold(topic, hash)

RECURSIVE FirstMatch(_, _, _)
\* The loop over receipt.Logs: the position (from 1) of the first log at or
\* after i that has a topic and whose first topic equals, ignoring case, the
\* hash of the signature; 0 when there is none.
FirstMatch(logs, sig, i) ==
    IF i > Len(logs) THEN 0
    ELSE IF /\ Len(logs[i].topics) > 0
            /\ TopicMatches(logs[i].topics[1], GetEventSignatureHash(sig))
         THEN i
    ELSE FirstMatch(logs, sig, i + 1)

\* The range check on the log index flag (request.go 196):
\* int(logIdxParsed) >= len(receipt.Logs) is false.
IndexInRange(idx, k) == IntIsNegative(idx) \/ ~NumGeNat(UintOf(idx), k)

\* A selection that looks at the event signature before the log index.
SelectLogSignatureFirst(logs, logIndexFlag, sigFlag) ==
    IF Len(logs) = 0
    THEN [ok |-> FALSE, idx |-> <<>>,
          err |-> Err("no logs found in transaction receipt", "none", <<>>)]
    ELSE IF sigFlag # <<>>
    THEN LET j == FirstMatch(logs, TrimSpace(sigFlag), 1)
         IN  IF j = 0
             THEN [ok |-> FALSE, idx |-> <<>>,
                   err |-> Err("no log found with event signature", "none", <<sigFlag>>)]
             ELSE [ok |-> TRUE, idx |-> NatToNum(j - 1), err |-> NoErr]
    ELSE IF logIndexFlag # <<>>
    THEN LET p == ParseUint(logIndexFlag, 32)
         IN  IF ~p.ok
             THEN [ok |-> FALSE, idx |-> <<>>, err |-> Err("invalid log index", p.err, <<>>)]
             ELSE IF ~IndexInRange(p.val, Len(logs))
             THEN [ok |-> FALSE, idx |-> <<>>,
                   err |-> Err("log index is out of range", "none", <<p.val, Len(logs)>>)]
             ELSE [ok |-> TRUE, idx |-> UintOf(p.val), err |-> NoErr]
    ELSE [ok |-> TRUE, idx |-> <<>>, err |-> NoErr]

\* "Determine which log to use" (request.go 181-255): the log index, or the
\* error.
SelectLog(logs, logIndexFlag, sigFlag) ==
    IF Len(logs) = 0
    THEN [ok |-> FALSE, idx |-> <<>>,
          err |-> Err("no logs found in transaction receipt", "none", <<>>)]
    ELSE IF logIndexFlag # <<>>
    THEN LET p == ParseUint(logIndexFlag, 32)
         IN  IF ~p.ok
             THEN [ok |-> FALSE, idx |-> <<>>, err |-> Err("invalid log index", p.err, <<>>)]
             ELSE IF ~IndexInRange(p.val, Len(logs))
             THEN [ok |-> FALSE, idx |-> <<>>,
                   err |-> Err("log index is out of range", "none", <<p.val, Len(logs)>>)]
             ELSE [ok |-> TRUE, idx |-> UintOf(p.val), err |-> NoErr]
    ELSE IF sigFlag # <<>>
    THEN LET j == FirstMatch(logs, TrimSpace(sigFlag), 1)
         IN  IF j = 0
             THEN [ok |-> FALSE, idx |-> <<>>,
                   err |-> Err("no log found with event signature", "none", <<sigFlag>>)]
             ELSE [ok |-> TRUE, idx |-> NatToNum(j - 1), err |-> NoErr]
    ELSE [ok |-> TRUE, idx |-> <<>>, err |-> NoErr]

\* A reading of the chain ID that takes chain 1 when the transaction names
\* none.
TxChainIDDefaulted(t) ==
    IF t.chainId = <<>>
    THEN [found |-> TRUE, ok |-> TRUE, val |-> NatToNum(1), err |-> "none"]
    ELSE LET ci == HexToUint64(t.chainId)
         IN  [found |-> TRUE, ok |-> ci.ok, val |-> ci.val, err |-> ci.err]

\* A reading of the chain ID that falls back on the --chain-id flag when
\* the transaction names none.
TxChainIDOrFlag(t) ==
    IF t.chainId = <<>>
    THEN LET p == ParseUint(flags.chainID, 64)
         IN  [found |-> flags.chainID # <<>>, ok |-> p.ok, val |-> p.val, err |-> p.err]
    ELSE LET ci == HexToUint64(t.chainId)
         IN  [found |-> TRUE, ok |-> ci.ok, val |-> ci.val, err |-> ci.err]

\* The chain ID of the fetched transaction (request.go 168-179): absent, or
\* converted from its hexadecimal text.
TxChainID(t) ==
    IF t.chainId = <<>>
    THEN [found |-> FALSE, ok |-> FALSE, val |-> <<>>, err |-> "none"]
    ELSE LET ci == HexToUint64(t.chainId)
         IN  [found |-> TRUE, ok |-> ci.ok, val |-> ci.val, err |-> ci.err]

\* processTransactionByHash from the fetched transaction and receipt to the
\* coordinates: block number, transaction index, chain ID, then the log.
Resolve(t, r, logIndexFlag, sigFlag) ==
    LET bn  == HexToUint64(r.blockNumber)
        ti  == HexToUint64(r.transactionIndex)
        ci  == TxChainID(t)
        sel == SelectLog(r.logs, logIndexFlag, sigFlag)
    IN  IF ~bn.ok
        THEN [ok |-> FALSE, err |-> Err("invalid block number in receipt", bn.err, <<>>), coords |-> NoCoords]
        ELSE IF ~ti.ok
        THEN [ok |-> FALSE, err |-> Err("invalid transaction index in receipt", ti.err, <<>>), coords |-> NoCoords]
        ELSE IF ~ci.found
        THEN [ok |-> FALSE, err |-> Err("chain ID not found in transaction", "none", <<>>), coords |-> NoCoords]
        ELSE IF ~ci.ok
        THEN [ok |-> FALSE, err |-> Err("invalid chain ID in transaction", ci.err, <<>>), coords |-> NoCoords]
        ELSE IF ~sel.ok
        THEN [ok |-> FALSE, err |-> sel.err, coords |-> NoCoords]
        ELSE [ok |-> TRUE, err |-> NoErr,
              coords |-> [chainID |-> ci.val, blockNumber |-> bn.val, txIndex |-> ti.val,
                          logIndex |-> sel.idx, built |-> TRUE]]

\* GetTransaction and GetTransactionReceipt prefix the hash with "0x" when
\* it has none.
NormalizeHash(h) == IF Has0xPrefix(h) THEN h ELSE <<"0", "x">> \o h

(***************************************************************************)
(* The proving service's answers.                                          *)
(***************************************************************************)
\* The decimal digits of a job identifier the service hands out.
JobDigits == <<"1", "2", "3", "4", "5">>

\* A JSON number as the service writes it: a sign, the digits of the
\* integral part, and a fraction that is absent, ".0" or ".5".
JSONNumber(neg, int, frac) == [neg |-> neg, int |-> int, frac |-> frac]
NoNumber == JSONNumber(FALSE, <<"0">>, "none")

D_2p53   == <<"9","0","0","7","1","9","9","2","5","4","7","4","0","9","9","2">>
D_2p53p1 == <<"9","0","0","7","1","9","9","2","5","4","7","4","0","9","9","3">>
D_max64  == <<"1","8","4","4","6","7","4","4","0","7","3","7","0","9","5","5","1","6","1","5">>

NumberSamples ==
    { JSONNumber(FALSE, JobDigits, "none"), JSONNumber(FALSE, JobDigits, "zero"),
      JSONNumber(FALSE, JobDigits, "half"), JSONNumber(FALSE, <<"0">>, "none"),
      JSONNumber(TRUE, <<"7">>, "none"),
      JSONNumber(FALSE, D_2p53, "none"), JSONNumber(FALSE, D_2p53p1, "none") }

\* What log_requestProof may be answered with: a failed exchange (a number
\* outside the float64 range makes the response undecodable), or a result
\* that is a JSON string, a JSON number or any other JSON value.
ProofReplies ==
    [outcome : ExchangeFailures, type : {"none"}, str : {<<>>}, num : {NoNumber}]
    \cup [outcome : {"ok"}, type : {"string"},
          str : {JobDigits, D_2p53p1, <<"a", "b", "c">>, <<"i", "n", "f">>, <<>>},
          num : {NoNumber}]
    \cup [outcome : {"ok"}, type : {"number"}, str : {<<>>}, num : NumberSamples]
    \cup [outcome : {"ok"}, type : {"null", "boolean", "object", "array"},
          str : {<<>>}, num : {NoNumber}]
\* A service that hands out the job identifier 12345 as a string, or is
\* not reached.
PlainService ==
    {r \in ProofReplies : \/ r.outcome = "transport"
                           \/ (r.type = "string" /\ r.str = JobDigits)}
\* A service that may fail in every way, and whose results are the job
\* identifier 12345 as a string or as a number, or null.
FailingService ==
    {r \in ProofReplies : \/ r.outcome # "ok"
                           \/ (r.type = "string" /\ r.str = JobDigits)
                           \/ (r.type = "number"
                               /\ r.num = JSONNumber(FALSE, JobDigits, "none"))
                           \/ r.type = "null"}
NoReply == [outcome |-> "none", type |-> "none", str |-> <<>>, num |-> NoNumber]

\* Half of an even number.
Halve(n) == LET bs == BitsOf(n) IN NumOfBits(SubSeq(bs, 1, Len(bs) - 1))

\* The float64 strconv.ParseFloat gives for the decimal n, or n and a half:
\* its integral part and whether a half remains.  Below 2^52 the half is
\* kept exactly; from there on the sum is rounded to 53 bits, ties to even.
Float64OfDecimal(n, half) ==
    IF ~half THEN [int |-> Float64Of(n), half |-> FALSE]
    ELSE IF Len(BitsOf(n)) <= 52 THEN [int |-> n, half |-> TRUE]
    ELSE [int |-> Halve(Float64Of(MulAdd(n, 2, 1))), half |-> FALSE]

\* fmt.Sprintf("%.0f", v) of the float64 a JSON number decodes to: the
\* nearest float64, rounded to an integer with ties to even, in full
\* decimal digits.
FormatFloat0(num) ==
    LET v    == Float64OfDecimal(NumOfDec(num.int, <<>>), num.frac = "half")
        odd  == v.int # <<>> /\ v.int[Len(v.int)] % 2 = 1
        r    == IF v.half /\ odd THEN MulAdd(v.int, 1, 1) ELSE v.int
    IN  (IF num.neg THEN <<"-">> ELSE <<>>) \o DecOf(r)

\* A normalisation that prints a number with fmt's default six decimals.
JobIDOfSixDecimals(reply) ==
    IF reply.type = "string" THEN reply.str
    ELSE FormatFloat0(reply.num) \o <<".", "0", "0", "0", "0", "0", "0">>

\* RequestProof's type switch on the result (api/client.go 128-135) for a
\* string and a number.
JobIDOf(reply) ==
    IF reply.type = "string" THEN reply.str ELSE FormatFloat0(reply.num)

\* What log_queryProof may be answered with: a failed exchange, a result
\* that does not decode into a ProofStatusResponse, or a status payload.
StatusPayloads ==
    { StatusResponse("pending", "", ""),
      StatusResponse("processing", "", ""),
      StatusResponse("complete", "0xproof", ""),
      StatusResponse("completed", "0xproof", ""),
      StatusResponse("completed", "", ""),
      StatusResponse("failed", "", "boom"),
      StatusResponse("failed", "", ""),
      StatusResponse("Pending", "", ""),
      StatusResponse("", "", "") }
StatusReplies ==
    [outcome : ExchangeFailures \cup {"badresult"}, resp : {NoStatus}]
    \cup [outcome : {"ok"}, resp : StatusPayloads]

(***************************************************************************)
(* Inputs of a run.                                                        *)
(***************************************************************************)
H_0     == <<"0", "x", "0">>
H_1     == <<"0", "x", "1">>
H_10    == <<"0", "x", "1", "0">>
H_bad   == <<"0", "x", "z", "z">>
H_2p32  == <<"0", "x", "1", "0", "0", "0", "0", "0", "0", "0", "0">>
H_max64 == <<"0", "x", "f", "f", "f", "f", "f", "f", "f", "f",
             "f", "f", "f", "f", "f", "f", "f", "f">>
H_2p64  == <<"0", "x", "1", "0", "0", "0", "0", "0", "0", "0", "0",
             "0", "0", "0", "0", "0", "0", "0", "0">>
D_max32 == <<"4", "2", "9", "4", "9", "6", "7", "2", "9", "5">>
D_2p32  == <<"4", "2", "9", "4", "9", "6", "7", "2", "9", "6">>
D_2p31  == <<"2", "1", "4", "7", "4", "8", "3", "6", "4", "8">>

TxHashPrefixed == <<"0", "x", "a", "b">>
TxHashBare     == <<"a", "b">>

\* The --api-url values of the runs: the default, and one that net/url
\* refuses ("missing ']' in host").
DefaultAPIURL == "https://proof.testnet.polymer.zone"
BrokenAPIURL  == "http://[::1"

\* file: viper found a configuration file.
GoodCfg == [configFlag |-> FALSE, home |-> TRUE, file |-> FALSE, loaded |-> TRUE, apiKey |-> "key", apiURL |-> DefaultAPIURL,
            debug |-> FALSE, maxAttempts |-> MaxAttemptsBound,
            interval |-> DefaultInterval]
Cfgs == [configFlag : {FALSE}, home : {TRUE}, file : {FALSE}, loaded : BOOLEAN, apiKey : {"", "key"}, apiURL : {DefaultAPIURL},
         debug : {FALSE},
         maxAttempts : -1..MaxAttemptsBound, interval : {0, DefaultInterval}]

NoFlags == [command |-> "request", jobArg |-> <<>>,
            txHash |-> <<>>, rpcURL |-> "", chainID |-> <<>>, blockNumber |-> <<>>,
            txIndex |-> <<>>, logIndex |-> <<>>, eventSignature |-> <<>>, wait |-> FALSE,
            raw |-> FALSE]
HashFlags == [NoFlags EXCEPT !.txHash = TxHashPrefixed, !.rpcURL = "http://node"]
ExplicitFlags == [NoFlags EXCEPT !.chainID = <<"1">>, !.blockNumber = <<"1", "6">>,
                                 !.txIndex = <<"5">>, !.logIndex = <<"2">>]

LogSamples == { [topics |-> <<>>], [topics |-> <<TopicTransfer>>],
                [topics |-> <<TopicTransferUpper>>],
                [topics |-> <<TopicApproval, TopicTransfer>>] }
\* Every receipt log list of at most n logs.
LogSeqs(n) == UNION { [1..k -> LogSamples] : k \in 0..n }

GoodReceipt == [blockNumber |-> H_10, transactionIndex |-> H_0,
                logs |-> <<[topics |-> <<TopicTransfer>>]>>]
GoodNode == [txKind |-> "ok", tx |-> [chainId |-> H_1],
             rcKind |-> "ok", receipt |-> GoodReceipt]

LogIndexSamples == { <<>>, <<"0">>, <<"1">>, <<"2">>, <<"3">>, <<"0", "1">>,
                     <<"x">>, <<"-", "1">>, D_max32, D_2p32 }
SigSamples == { <<>>, SigTransfer, SigPadded, SigApproval, SigBlank, SigWrapped,
                SigAccented, SigNoBreak }

\* Runs that differ in the numeric fields of the transaction and receipt.
FieldRuns ==
    { [cfg |-> GoodCfg,
       flags |-> [HashFlags EXCEPT !.logIndex = li, !.chainID = cf],
       node |-> [GoodNode EXCEPT !.tx = [chainId |-> ci],
                                 !.receipt = [blockNumber |-> bn, transactionIndex |-> ti,
                                              logs |-> lg]]] :
      li \in {<<>>, <<"0">>}, cf \in {<<>>, <<"5">>},
      ci \in {<<>>, H_1, H_bad, H_2p64, H_max64},
      bn \in {H_10, <<>>, H_2p64}, ti \in {H_0, H_2p32, H_bad},
      lg \in LogSeqs(1) }
\* Runs that differ in the log selection.
SelectionRuns ==
    { [cfg |-> GoodCfg,
       flags |-> [HashFlags EXCEPT !.logIndex = sel[1], !.eventSignature = sel[2]],
       node |-> [GoodNode EXCEPT !.receipt.logs = lg]] :
      sel \in (LogIndexSamples \X {<<>>, SigTransfer}) \cup ({<<>>, <<"0">>, <<"1">>} \X SigSamples),
      lg \in LogSeqs(MaxLogs) }
\* Runs that differ in how the node's exchanges end.
NodeRuns ==
    { [cfg |-> GoodCfg,
       flags |-> [HashFlags EXCEPT !.txHash = h, !.rpcURL = u],
       node |-> [GoodNode EXCEPT !.txKind = tk, !.rcKind = rk]] :
      h \in {TxHashPrefixed, TxHashBare}, u \in {"", "http://node"},
      tk \in ExchangeFailures \cup {"ok", "badresult"},
      rk \in ExchangeFailures \cup {"ok", "badresult"} }
\* Runs that give the coordinates as flags.
ExplicitRuns ==
    { [cfg |-> GoodCfg,
       flags |-> [NoFlags EXCEPT !.chainID = c, !.blockNumber = b,
                                 !.txIndex = t, !.logIndex = l],
       node |-> GoodNode] :
      c \in {<<>>, <<"1">>, <<"x">>}, b \in {<<>>, <<"1", "6">>, <<"-", "1">>},
      t \in {<<>>, <<"5">>, D_2p32}, l \in {<<>>, <<"2">>, D_max32, D_2p32} }
\* Runs that differ in the configuration and wait for the proof.
PollingRuns ==
    { [cfg |-> c, flags |-> [f EXCEPT !.wait = w], node |-> GoodNode] :
      c \in Cfgs, f \in {HashFlags, ExplicitFlags}, w \in BOOLEAN }

\* The numbers of at most MaxHexDigits base-16 digits, and 2^32, 2^63 and
\* 2^64 - 1.
NumSamples ==
    { StripZeros(ds) : ds \in UNION { [1..k -> 0..15] : k \in 0..MaxHexDigits } }
    \cup { <<1>> \o [i \in 1..8 |-> 0], <<8>> \o [i \in 1..15 |-> 0], [i \in 1..16 |-> 15] }
\* 2^64 and 2^68 - 1.
Over64 == { <<1>> \o [i \in 1..16 |-> 0], [i \in 1..17 |-> 15] }

HexChars == <<"0", "1", "2", "3", "4", "5", "6", "7",
              "8", "9", "a", "b", "c", "d", "e", "f">>
\* The lower-case base-16 numeral of a number, as a node writes it.
ToHex(n) == IF n = <<>> THEN <<"0">> ELSE [i \in 1..Len(n) |-> HexChars[n[i] + 1]]
Quantity(n) == <<"0", "x">> \o ToHex(n)

\* Texts that are no base-16 numeral of a node, with or without a sign.
OddHexSamples ==
    { <<>>, <<"0", "x">>, <<"0", "x", "z", "z">>, <<"z">>, <<"0", "x", " ", "1">>,
      <<"0", "X", "1", "F">>, <<"0", "x", "0", "x", "1">>, <<"0", "x", "+">>,
      <<"0", "x", "+", "5">>, <<"+", "5">>, <<"-", "0">>, <<"0", "x", "-", "0">>,
      <<"-", "1">>, <<"0", "x", "-", "1">>, <<"1", "F">>, <<"0", "x", "0", "0", "F", "f">> }

\* Runs that differ in the block number text of the receipt.
HexRuns ==
    { [cfg |-> GoodCfg, flags |-> HashFlags,
       node |-> [GoodNode EXCEPT !.receipt.blockNumber = h]] :
      h \in {Quantity(n) : n \in NumSamples \cup Over64} \cup OddHexSamples }

\* Runs of a 386 build that differ in the log index and transaction index.
SmallWordRuns ==
    { [cfg |-> GoodCfg,
       flags |-> [HashFlags EXCEPT !.logIndex = li],
       node |-> [GoodNode EXCEPT !.receipt.transactionIndex = ti, !.receipt.logs = lg]] :
      li \in {<<>>, <<"1">>, D_2p31, D_max32}, ti \in {H_0, H_10, H_2p32},
      lg \in LogSeqs(2) }

\* Runs that differ in what they print: with and without --debug, --raw and
\* --wait, with and without a configuration file, on both paths.
OutputRuns ==
    { [cfg |-> [GoodCfg EXCEPT !.debug = d, !.file = cf, !.apiKey = k, !.maxAttempts = 2],
       flags |-> [f EXCEPT !.wait = w, !.raw = rw, !.eventSignature = sg],
       node |-> [GoodNode EXCEPT !.receipt.logs = lg]] :
      d \in BOOLEAN, cf \in BOOLEAN, k \in {"", "key"},
      f \in {HashFlags, ExplicitFlags, [HashFlags EXCEPT !.logIndex = <<"0">>]},
      w \in BOOLEAN, rw \in BOOLEAN, sg \in {<<>>, SigTransfer, SigApproval},
      lg \in { <<[topics |-> <<>>], [topics |-> <<TopicTransfer>>]>> } }

\* Runs by hash that also carry the flags of the explicit path, with
\* values that path would take and values it would refuse.
IgnoredFlagRuns ==
    { [cfg |-> GoodCfg,
       flags |-> [HashFlags EXCEPT !.chainID = c, !.blockNumber = b, !.txIndex = t,
                                   !.rpcURL = u],
       node |-> [GoodNode EXCEPT !.tx = [chainId |-> ci]]] :
      c \in {<<>>, <<"5">>, <<"x">>}, b \in {<<>>, <<"7">>, <<"-", "1">>},
      t \in {<<>>, <<"9">>, D_2p32}, u \in {"", "http://node"}, ci \in {<<>>, H_1} }

\* Job identifiers a user may hand to the status command.
JobArgs == { JobDigits, <<"1", "2", "3", "4", "5", ".", "0">>, <<"+", "7", ".", "5">>,
            D_2p53p1, D_max64, <<"a", "b", "c">>, <<>>, <<"i", "n", "f">>,
            <<"N", "a", "N">>,
            <<"-", "7">> }

\* Runs of the status command.
StatusRuns ==
    { [cfg |-> [GoodCfg EXCEPT !.debug = d, !.file = cf, !.apiKey = k, !.apiURL = u],
       flags |-> [NoFlags EXCEPT !.command = "status", !.jobArg = j, !.raw = rw],
       node |-> GoodNode] :
      d \in BOOLEAN, cf \in BOOLEAN, k \in {"", "key"},
      u \in {DefaultAPIURL, BrokenAPIURL}, j \in JobArgs, rw \in BOOLEAN }

\* Runs that differ in how the program starts: the command, whether --config
\* is given, whether the home directory is known, whether a configuration
\* file is read, and whether the configuration loads.
StartupRuns ==
    { [cfg |-> [GoodCfg EXCEPT !.configFlag = cg, !.home = h, !.file = cf, !.loaded = ld,
                               !.debug = d],
       flags |-> f, node |-> GoodNode] :
      cg \in BOOLEAN, h \in BOOLEAN, cf \in BOOLEAN, ld \in BOOLEAN, d \in BOOLEAN,
      f \in {ExplicitFlags, [NoFlags EXCEPT !.command = "status", !.jobArg = <<"7">>],
             [NoFlags EXCEPT !.command = "version"]} }

\* Runs of the request command against a service URL that cannot be parsed.
ServiceRuns ==
    { [cfg |-> [GoodCfg EXCEPT !.debug = d, !.apiURL = BrokenAPIURL],
       flags |-> [f EXCEPT !.wait = w], node |-> GoodNode] :
      d \in BOOLEAN, f \in {HashFlags, ExplicitFlags}, w \in BOOLEAN }

\* Runs that differ in the result of log_requestProof, with and without
\* --wait.
JobIDRuns ==
    { [cfg |-> [GoodCfg EXCEPT !.maxAttempts = 2],
       flags |-> [ExplicitFlags EXCEPT !.wait = w], node |-> GoodNode] : w \in BOOLEAN }

\* A run with the proving service it talks to and the build it runs on.
OnBuild(r, replies, bits) ==
    [cfg |-> r.cfg, flags |-> r.flags, node |-> r.node, service |-> replies,
     uintSize |-> bits]

Runs == { OnBuild(r, PlainService, 64) :
            r \in FieldRuns \cup SelectionRuns \cup NodeRuns \cup ExplicitRuns \cup HexRuns
                  \cup OutputRuns \cup StatusRuns \cup ServiceRuns \cup IgnoredFlagRuns
                                            \cup StartupRuns }
        \cup { OnBuild(r, FailingService, 64) : r \in PollingRuns }
        \cup { OnBuild(r, ProofReplies, 64) : r \in JobIDRuns }
        \cup { OnBuild(r, PlainService, 32) : r \in SmallWordRuns }

(***************************************************************************)
(* The run.                                                                *)
(***************************************************************************)
Init ==
    /\ \E r \in Runs : /\ cfg = r.cfg /\ flags = r.flags /\ node = r.node
                       /\ service = r.service /\ uintSize = r.uintSize
    /\ pc = "start"
    /\ tx = NoTx
    /\ receipt = NoReceipt
    /\ coords = NoCoords
    /\ answer = NoReply
    /\ jobID = <<>>
    /\ attempt = 0
    /\ trace = <<>>
    /\ invocations = <<>>
    /\ stdout = <<>>
    /\ status = NoStatus
    /\ waitRet = Running
    /\ result = Running

\* The run returns.
Return(r) == pc' = "done" /\ result' = r

\* One write to standard output: the text of its format and its arguments.
Line(text, args) == [text |-> text, args |-> args]

\* What is printed only under --debug.
Debug(lines) == IF cfg.debug THEN lines ELSE <<>>

\* The proof printed unquoted (request.go 313-328, status.go 57-72 and
\* 89-102): fmt.Print of an empty text writes nothing.
RawProof(proof) == IF proof = "" THEN <<>> ELSE <<Line("proof", <<proof, "raw">>)>>

\* url.Parse on the service URLs of the runs.
URLParses(u) == u = DefaultAPIURL

\* An API operation that sends whatever it was given.
RequestBuiltAlways(op, arg) == "none"

\* What an API operation does before it sends: GetProofStatus parses the
\* job identifier (api/client.go 143-146), both marshal the request (72-75,
\* 156-159; json refuses Inf and NaN) and build the HTTP request (83-86,
\* 167-170).  The error, or "none".
RequestBuilt(op, arg) ==
    IF op = "GetProofStatus" /\ ~ParseFloatOk(arg[1]) THEN "invalid job ID"
    ELSE IF op = "GetProofStatus" /\ IsSpecialFloat(arg[1]) THEN "failed to marshal request"
    ELSE IF ~URLParses(cfg.apiURL) THEN "failed to create HTTP request"
    ELSE "none"

\* The DEBUG lines of an API operation (api/client.go 77-80, 106-109 and
\* 161-164, 190-193).
ClientLines(params, built, outcome) ==
    Debug(IF built \in {"invalid job ID", "failed to marshal request"} THEN <<>>
          ELSE <<Line("DEBUG: Sending request to", <<cfg.apiURL>>),
                 Line("DEBUG: Request body", params)>>
               \o (IF built = "none" /\ outcome \notin {"transport", "readbody"}
                   THEN <<Line("DEBUG: Response status", <<outcome>>),
                          Line("DEBUG: Response body", <<outcome>>)>>
                   ELSE <<>>))

\* The DEBUG lines of an RPC operation (rpc/client.go 105-108, 121-124 and
\* 166-169, 182-185).
RPCLines(params, outcome) ==
    Debug(<<Line("DEBUG: Sending RPC request to", <<flags.rpcURL>>),
            Line("DEBUG: Request body", params)>>
          \o (IF outcome \notin {"transport", "readbody"}
              THEN <<Line("DEBUG: Response status", <<outcome>>),
                     Line("DEBUG: Response body", <<outcome>>)>>
              ELSE <<>>))

RECURSIVE TopicLines(_, _, _)
\* request.go 218-224: one line for each log with a topic, from log i to
\* log last.
TopicLines(logs, i, last) ==
    IF i > last THEN <<>>
    ELSE (IF Len(logs[i].topics) > 0
          THEN <<Line("  Log Topic[0]", <<i - 1, logs[i].topics[1]>>)>>
          ELSE <<>>) \o TopicLines(logs, i + 1, last)

\* What "Determine which log to use" prints under --debug (request.go
\* 202-204, 209-211, 222-224, 236-238, 251-253), given what the resolution
\* r came to: the search for a signature prints the topics up to the log it
\* chose, or of all logs when it chose none.
SelectLines(r, logs, logIndexFlag, sigFlag) ==
    IF Len(logs) = 0 THEN <<>>
    ELSE IF logIndexFlag # <<>>
    THEN IF r.ok THEN <<Line("Using specified log index", <<r.coords.logIndex>>)>> ELSE <<>>
    ELSE IF sigFlag # <<>>
    THEN <<Line("Searching for log with event signature", <<sigFlag>>)>>
         \o TopicLines(logs, 1, IF r.ok THEN NumToNat(r.coords.logIndex) + 1 ELSE Len(logs))
         \o (IF r.ok THEN <<Line("Found matching log at index", <<r.coords.logIndex>>)>>
                     ELSE <<>>)
    ELSE <<Line("No log index or event signature provided, using first log", <<>>)>>

\* What processTransactionByHash prints under --debug from the receipt to
\* the coordinates (request.go 181-264), given what the resolution r came
\* to: nothing when a number of the receipt or the chain ID stopped it.
ResolveLines(r, logs, logIndexFlag, sigFlag) ==
    IF r.err.kind \in {"invalid block number in receipt",
                       "invalid transaction index in receipt",
                       "chain ID not found in transaction",
                       "invalid chain ID in transaction"}
    THEN <<>>
    ELSE SelectLines(r, logs, logIndexFlag, sigFlag)
         \o (IF r.ok
             THEN <<Line("Transaction details:", <<>>),
                    Line("  Chain ID", <<r.coords.chainID>>),
                    Line("  Block Number", <<r.coords.blockNumber>>),
                    Line("  Transaction Index", <<r.coords.txIndex>>),
                    Line("  Log Index", <<r.coords.logIndex>>)>>
             ELSE <<>>)

\* waitAndDisplayProof after WaitForProof returned a status (request.go
\* 308-338): the lines, and the error of json.Indent, which refuses the
\* empty text of an absent proof.
DisplayProof(st) ==
    IF ~cfg.debug \/ flags.raw
    THEN [lines |-> Debug(<<Line("Proof generated successfully!", <<>>)>>) \o RawProof(st.proof),
          err |-> "none"]
    ELSE IF st.proof = ""
    THEN [lines |-> <<Line("Proof generated successfully!", <<>>)>>,
          err |-> "failed to format proof as JSON"]
    ELSE [lines |-> <<Line("Proof generated successfully!", <<>>),
                      Line("proof", <<st.proof, "indented">>)>>,
          err |-> "none"]

\* The status command's test for printing the proof (status.go 57 and 86).
ProofShown(st) == st.status = "completed" /\ st.proof # ""

\* What the status command prints for a status (status.go 52-113).  A
\* proof that is present was decoded from the response, so json.Indent
\* accepts it.
StatusLines(st) ==
    IF ~cfg.debug
    THEN <<Line("status", <<st.status>>)>>
         \o (IF ProofShown(st) THEN RawProof(st.proof) ELSE <<>>)
    ELSE <<Line("Status:", <<st.status>>)>>
         \o (IF st.error # "" THEN <<Line("Error:", <<st.error>>)>> ELSE <<>>)
         \o (IF ~ProofShown(st) THEN <<>>
             ELSE <<Line("Proof is ready!", <<>>)>>
                  \o (IF flags.raw THEN RawProof(st.proof)
                      ELSE <<Line("proof", <<st.proof, "indented">>)>>))

\* An API operation is entered with its arguments.
Invoke(op, arg) == invocations' = Append(invocations, [op |-> op, arg |-> arg])

\* The home directory is needed and os.UserHomeDir fails (initConfig 55-59).
HomeMissing(c) == ~c.configFlag /\ ~c.home

\* The process ended by os.Exit(1).
Exited == [state |-> "exit", err |-> NoErr]

\* initConfig (root.go 49-75), then RunE 48-57 (status.go 28-37): the
\* configuration file is read, and the request and status commands load and
\* validate the configuration.  The version command does neither.
LoadConfig ==
    /\ pc = "start"
    /\ IF HomeMissing(cfg)
       THEN /\ stdout' = Append(stdout, Line("os.UserHomeDir error", <<>>))
            /\ Return(Exited)
       ELSE /\ stdout' = stdout \o (IF cfg.file THEN <<Line("Using config file:", <<>>)>>
                                                ELSE <<>>)
            /\ IF flags.command = "version"
               THEN pc' = "version" /\ UNCHANGED result
               ELSE IF ConfigError(cfg) # "none"
               THEN Return(Failed(Err(ConfigError(cfg), ConfigCause(cfg), <<>>)))
               ELSE pc' = "dispatch" /\ UNCHANGED result
    /\ UNCHANGED <<inputs, tx, receipt, coords, answer, jobID, attempt, trace, invocations,
                   status, waitRet>>

\* versionCmd.Run (version.go 19-21).
Version ==
    /\ pc = "version"
    /\ stdout' = Append(stdout, Line("polymer-cli v", <<"0.1.0">>))
    /\ Return(Succeeded)
    /\ UNCHANGED <<inputs, tx, receipt, coords, answer, jobID, attempt, trace, invocations,
                   status, waitRet>>

\* The command that runs, and RunE 62-76: the path is chosen from the flags.
Dispatch ==
    /\ pc = "dispatch"
    /\ IF flags.command = "status"
       THEN pc' = "getStatus" /\ UNCHANGED result
       ELSE IF flags.txHash # <<>>
       THEN IF flags.rpcURL = ""
            THEN Return(Failed(Err("RPC URL is required", "none", <<>>)))
            ELSE pc' = "getTransaction" /\ UNCHANGED result
       ELSE IF \/ flags.chainID = <<>> \/ flags.blockNumber = <<>>
               \/ flags.txIndex = <<>> \/ flags.logIndex = <<>>
            THEN Return(Failed(Err("flags are required", "none", <<>>)))
            ELSE pc' = "parseFlags" /\ UNCHANGED result
    /\ UNCHANGED <<inputs, tx, receipt, coords, answer, jobID, attempt, trace, invocations,
                   stdout, status, waitRet>>

\* RunE 78-100: the four flags are parsed.
ParseFlags ==
    /\ pc = "parseFlags"
    /\ LET p == ParseExplicit(flags)
       IN  IF p.ok
           THEN pc' = "requestProof" /\ coords' = p.coords /\ UNCHANGED result
           ELSE Return(Failed(p.err)) /\ UNCHANGED coords
    /\ UNCHANGED <<inputs, tx, receipt, answer, jobID, attempt, trace, invocations, stdout,
                   status, waitRet>>

\* processTransactionByHash 132-145 with RPCClient.GetTransaction.
GetTransaction ==
    /\ pc = "getTransaction"
    /\ trace' = Append(trace, Call("eth_getTransactionByHash",
                                   <<NormalizeHash(flags.txHash)>>, node.txKind, NoStatus))
    /\ stdout' = stdout
                 \o Debug(<<Line("Connecting to RPC endpoint", <<flags.rpcURL>>),
                            Line("Fetching transaction", <<flags.txHash>>)>>)
                 \o RPCLines(<<NormalizeHash(flags.txHash)>>, node.txKind)
    /\ IF node.txKind = "ok"
       THEN pc' = "getReceipt" /\ tx' = node.tx /\ UNCHANGED result
       ELSE /\ Return(Failed(Err("failed to get transaction", node.txKind, <<>>)))
            /\ UNCHANGED tx
    /\ UNCHANGED <<inputs, receipt, coords, answer, jobID, attempt, invocations, status,
                   waitRet>>

\* processTransactionByHash 148-154 with RPCClient.GetTransactionReceipt.
GetTransactionReceipt ==
    /\ pc = "getReceipt"
    /\ trace' = Append(trace, Call("eth_getTransactionReceipt",
                                   <<NormalizeHash(flags.txHash)>>, node.rcKind, NoStatus))
    /\ stdout' = stdout
                 \o Debug(<<Line("Fetching transaction receipt...", <<>>)>>)
                 \o RPCLines(<<NormalizeHash(flags.txHash)>>, node.rcKind)
    /\ IF node.rcKind = "ok"
       THEN pc' = "resolve" /\ receipt' = node.receipt /\ UNCHANGED result
       ELSE /\ Return(Failed(Err("failed to get transaction receipt", node.rcKind, <<>>)))
            /\ UNCHANGED receipt
    /\ UNCHANGED <<inputs, tx, coords, answer, jobID, attempt, invocations, status, waitRet>>

\* processTransactionByHash 156-264, r being what the resolution comes to.
ResolveLogGiven(r) ==
    /\ stdout' = stdout \o Debug(ResolveLines(r, receipt.logs, flags.logIndex,
                                              flags.eventSignature))
    /\ IF r.ok
       THEN pc' = "requestProof" /\ coords' = r.coords /\ UNCHANGED result
       ELSE Return(Failed(r.err)) /\ UNCHANGED coords

ResolveLog ==
    /\ pc = "resolve"
    /\ ResolveLogGiven(Resolve(tx, receipt, flags.logIndex, flags.eventSignature))
    /\ UNCHANGED <<inputs, tx, receipt, answer, jobID, attempt, trace, invocations, status,
                   waitRet>>

\* What is printed before RequestProof is called: always with explicit
\* coordinates (request.go 103), under --debug with a hash (267-269).
RequestingLines ==
    IF flags.txHash = <<>>
    THEN <<Line("Requesting proof...", <<>>)>>
    ELSE Debug(<<Line("Requesting proof...", <<>>)>>)

\* What is printed once RequestProof returned a job identifier (request.go
\* 114-120 and 280-286), and on entering waitAndDisplayProof (298-301).
SubmittedLines(id) ==
    (IF cfg.debug
     THEN <<Line("Proof request submitted successfully", <<>>), Line("Job ID:", <<id>>)>>
     ELSE IF ~flags.wait THEN <<Line("job", <<id>>)>> ELSE <<>>)
    \o (IF flags.wait
        THEN Debug(<<Line("Waiting for proof to be generated",
                          <<cfg.maxAttempts, cfg.interval>>)>>)
        ELSE <<>>)

\* Client.RequestProof as RunE (102-126) and processTransactionByHash
\* (266-292) call it, up to the decision to wait: arg are the coordinates
\* passed, built is what building the request comes to.
RequestProofGiven(arg, built) ==
    /\ Invoke("RequestProof", arg)
    /\ IF built # "none"
       THEN /\ Return(Failed(Err("failed to request proof", built, <<>>)))
            /\ stdout' = stdout \o RequestingLines \o ClientLines(arg, built, "none")
            /\ UNCHANGED <<trace, answer, jobID>>
       ELSE \E reply \in service :
              /\ answer' = reply
              /\ trace' = Append(trace, Call("log_requestProof", arg, reply.outcome, NoStatus))
              /\ IF reply.outcome # "ok"
                 THEN /\ Return(Failed(Err("failed to request proof", reply.outcome, <<>>)))
                      /\ stdout' = stdout \o RequestingLines
                                   \o ClientLines(arg, built, reply.outcome)
                      /\ UNCHANGED jobID
                 ELSE IF reply.type \notin {"string", "number"}
                 THEN /\ Return(Failed(Err("failed to request proof",
                                           "unexpected result type", <<>>)))
                      /\ stdout' = stdout \o RequestingLines
                                   \o ClientLines(arg, built, reply.outcome)
                      /\ UNCHANGED jobID
                 ELSE /\ jobID' = JobIDOf(reply)
                      /\ stdout' = stdout \o RequestingLines
                                   \o ClientLines(arg, built, reply.outcome)
                                   \o SubmittedLines(jobID')
                      /\ IF flags.wait THEN pc' = "poll" /\ UNCHANGED result
                                       ELSE Return(Succeeded)

\* The coordinates as RequestProof takes them: uint64, uint64, uint, uint.
RequestArgs(c) == <<c.chainID, c.blockNumber, UintOf(c.txIndex), UintOf(c.logIndex)>>

RequestProof ==
    /\ pc = "requestProof"
    /\ RequestProofGiven(RequestArgs(coords), RequestBuilt("RequestProof", RequestArgs(coords)))
    /\ UNCHANGED <<inputs, tx, receipt, coords, attempt, status, waitRet>>

\* A loop that runs once more than it was told to.
LoopContinuesInclusive(a, maxAttempts) == a <= maxAttempts

\* A loop that counts its attempts from one.
LoopContinuesFromOne(a, maxAttempts) == a + 1 < maxAttempts

\* WaitForProof's for condition (api/client.go 226).
LoopContinues(a, maxAttempts) == a < maxAttempts

\* A switch that knows only the "completed" spelling of success.
DecideOneSpelling(outcome, st) ==
    IF outcome # "ok" THEN "error"
    ELSE IF st = "completed" THEN "success"
    ELSE IF st = "failed" THEN "failed"
    ELSE IF st \in {"pending", "processing"} THEN "continue"
    ELSE "unknown"

\* A switch that keeps polling a job that failed.
DecideFailedPolls(outcome, st) ==
    IF outcome # "ok" THEN "error"
    ELSE IF st \in {"complete", "completed"} THEN "success"
    ELSE IF st \in {"pending", "processing", "failed"} THEN "continue"
    ELSE "unknown"

\* A switch whose default case keeps polling.
DecideDefaultPolls(outcome, st) ==
    IF outcome # "ok" THEN "error"
    ELSE IF st \in {"complete", "completed"} THEN "success"
    ELSE IF st = "failed" THEN "failed"
    ELSE "continue"

\* A loop that tries again after a status call that failed in transport.
DecideRetriesTransport(outcome, st) ==
    IF outcome = "transport" THEN "continue"
    ELSE IF outcome # "ok" THEN "error"
    ELSE IF st \in {"complete", "completed"} THEN "success"
    ELSE IF st = "failed" THEN "failed"
    ELSE IF st \in {"pending", "processing"} THEN "continue"
    ELSE "unknown"

\* What WaitForProof does with what GetProofStatus returned (231-249): an
\* error is returned as it is, a status goes through the switch.
Decide(outcome, st) ==
    IF outcome # "ok" THEN "error"
    ELSE IF st \in {"complete", "completed"} THEN "success"
    ELSE IF st = "failed" THEN "failed"
    ELSE IF st \in {"pending", "processing"} THEN "continue"
    ELSE "unknown"

\* The status command from the call of GetProofStatus on (status.go
\* 42-113): arg is the job identifier, wire the number it names, built what
\* building the request comes to.
GetStatusGiven(arg, wire, built) ==
    /\ Invoke("GetProofStatus", arg)
    /\ IF built # "none"
       THEN /\ Return(Failed(Err("failed to get proof status", built, <<>>)))
            /\ stdout' = stdout \o Debug(<<Line("Checking status for job ID", arg)>>)
                         \o ClientLines(wire, built, "none")
            /\ UNCHANGED <<trace, status>>
       ELSE \E reply \in StatusReplies :
              /\ trace' = Append(trace, Call("log_queryProof", wire,
                                             reply.outcome, reply.resp))
              /\ IF reply.outcome # "ok"
                 THEN /\ Return(Failed(Err("failed to get proof status",
                                           reply.outcome, <<>>)))
                      /\ stdout' = stdout \o Debug(<<Line("Checking status for job ID", arg)>>)
                                   \o ClientLines(wire, built, reply.outcome)
                      /\ UNCHANGED status
                 ELSE /\ Return(Succeeded)
                      /\ status' = reply.resp
                      /\ stdout' = stdout \o Debug(<<Line("Checking status for job ID", arg)>>)
                                   \o ClientLines(wire, built, reply.outcome)
                                   \o StatusLines(reply.resp)

GetStatus ==
    /\ pc = "getStatus"
    /\ GetStatusGiven(<<flags.jobArg>>, <<WireJobID(flags.jobArg)>>,
                      RequestBuilt("GetProofStatus", <<flags.jobArg>>))
    /\ UNCHANGED <<inputs, tx, receipt, coords, answer, jobID, attempt, waitRet>>

\* The error WaitForProof returns for a decision that ends the polling
\* without success.
WaitError(d, reply) ==
    Err("failed while waiting for proof",
        CASE d = "error"   -> reply.outcome
          [] d = "failed"  -> "proof generation failed"
          [] d = "unknown" -> "unknown job status",
        CASE d = "error"   -> <<>>
          [] d = "failed"  -> <<reply.resp.error>>
          [] d = "unknown" -> <<reply.resp.status>>)

\* WaitForProof returns an error, and with it the run.
WaitReturn(r) == waitRet' = r /\ Return(r)

\* What one pass of WaitForProof's loop prints up to the end of its switch
\* (api/client.go 227-229, 243-245, with GetProofStatus between).
PollLines(wire, built, outcome, d, st) ==
    Debug(<<Line("DEBUG: Polling attempt", <<attempt + 1, cfg.maxAttempts, jobID>>)>>)
    \o ClientLines(wire, built, outcome)
    \o (IF d = "continue"
        THEN Debug(<<Line("DEBUG: Job status, waiting...", <<st.status>>)>>)
        ELSE <<>>)

\* WaitForProof returned the status st, and the rest of waitAndDisplayProof
\* showed it.
WaitSuccess(st, shown) ==
    /\ waitRet' = Succeeded
    /\ status' = st
    /\ stdout' = stdout \o shown.lines
    /\ Return(IF shown.err = "none" THEN Succeeded ELSE Failed(Err(shown.err, "none", <<>>)))

\* One pass of WaitForProof's loop up to the end of its switch, and on
\* success the rest of waitAndDisplayProof.  GetProofStatus parses the job
\* identifier, marshals the request and builds the HTTP request before it
\* calls out: wire is the number the identifier names, built what building
\* the request comes to.
PollStatusGiven(wire, built) ==
    /\ Invoke("GetProofStatus", <<jobID>>)
    /\ IF built # "none"
       THEN /\ WaitReturn(Failed(Err("failed while waiting for proof", built, <<>>)))
            /\ stdout' = stdout \o PollLines(wire, built, "none", "error", NoStatus)
            /\ UNCHANGED <<trace, status>>
       ELSE \E reply \in StatusReplies :
              /\ trace' = Append(trace, Call("log_queryProof", wire,
                                             reply.outcome, reply.resp))
              /\ IF Decide(reply.outcome, reply.resp.status) = "success"
                 THEN WaitSuccess(reply.resp,
                                  [lines |-> PollLines(wire, built, reply.outcome,
                                                       "success", reply.resp)
                                             \o DisplayProof(reply.resp).lines,
                                   err |-> DisplayProof(reply.resp).err])
                 ELSE IF Decide(reply.outcome, reply.resp.status) = "continue"
                 THEN /\ pc' = "sleep"
                      /\ stdout' = stdout \o PollLines(wire, built, reply.outcome,
                                                       "continue", reply.resp)
                      /\ UNCHANGED <<result, waitRet, status>>
                 ELSE /\ WaitReturn(Failed(WaitError(Decide(reply.outcome,
                                                            reply.resp.status), reply)))
                      /\ stdout' = stdout \o PollLines(wire, built, reply.outcome,
                                                       "error", reply.resp)
                      /\ UNCHANGED status

PollStatus ==
    /\ pc = "poll"
    /\ LoopContinues(attempt, cfg.maxAttempts)
    /\ PollStatusGiven(<<WireJobID(jobID)>>, RequestBuilt("GetProofStatus", <<jobID>>))
    /\ UNCHANGED <<inputs, tx, receipt, coords, answer, jobID, attempt>>

\* WaitForProof 246 and the loop's attempt++.
Sleep ==
    /\ pc = "sleep"
    /\ trace' = Append(trace, SleepEvent(cfg.interval))
    /\ attempt' = attempt + 1
    /\ pc' = "poll"
    /\ UNCHANGED <<inputs, tx, receipt, coords, answer, jobID, invocations, stdout, status,
                   waitRet, result>>

\* WaitForProof 252: the loop ended without a terminal status.
PollTimeout ==
    /\ pc = "poll"
    /\ ~LoopContinues(attempt, cfg.maxAttempts)
    /\ WaitReturn(Failed(Err("failed while waiting for proof",
                             "max polling attempts reached", <<cfg.maxAttempts>>)))
    /\ UNCHANGED <<inputs, tx, receipt, coords, answer, jobID, attempt, trace, invocations,
                   stdout, status>>

Next ==
    \/ LoadConfig
    \/ Version
    \/ Dispatch
    \/ ParseFlags
    \/ GetTransaction
    \/ GetTransactionReceipt
    \/ ResolveLog
    \/ RequestProof
    \/ GetStatus
    \/ PollStatus
    \/ Sleep
    \/ PollTimeout

Spec == Init /\ [][Next]_vars

(***************************************************************************)
(* What the log shows                                                      *)
(***************************************************************************)
CallsOf(method) ==
    {i \in DOMAIN trace : trace[i].ev = "call" /\ trace[i].method = method}

\* WaitForProof was called.
WaitEntered == pc \in {"poll", "sleep"} \/ waitRet # Running

\* The status calls WaitForProof made (the status command calls
\* GetProofStatus itself).
StatusCalls  == IF WaitEntered THEN CallsOf("log_queryProof") ELSE {}
Observations == {i \in StatusCalls : trace[i].ok}
Sleeps       == {i \in DOMAIN trace : trace[i].ev = "sleep"}

\* The status calls in the order they were made.
RECURSIVE InOrder(_)
InOrder(S) ==
    IF S = {} THEN <<>>
    ELSE LET m == CHOOSE x \in S : \A y \in S : x <= y
         IN  <<m>> \o InOrder(S \ {m})

StatusSeq == InOrder(StatusCalls)

Observed(n) == trace[StatusSeq[n]]

InProgress(e) == e.ok /\ e.resp.status \in {"pending", "processing"}
Success(e)    == e.ok /\ e.resp.status \in {"complete", "completed"}

WaitFailure(cause, args) == Failed(Err("failed while waiting for proof", cause, args))

(***************************************************************************)
(* C1  When the n-th observed status is the first "complete" or            *)
(* "completed", every earlier one being "pending" or "processing", and     *)
(* n <= maxAttempts, WaitForProof returns that status as success after     *)
(* exactly n observations and exactly n - 1 sleeps, each of the configured *)
(* interval.                                                               *)
(***************************************************************************)
C1_SuccessAtFirstTerminal ==
    \A n \in 1..Len(StatusSeq) :
        ( /\ n <= cfg.maxAttempts
          /\ Success(Observed(n))
          /\ \A m \in 1..(n - 1) : InProgress(Observed(m)) )
        => /\ waitRet = Succeeded
           /\ status = Observed(n).resp
           /\ Len(StatusSeq) = n
           /\ Cardinality(Sleeps) = n - 1
           /\ \A i \in Sleeps : trace[i].params = <<cfg.interval>>
           /\ \A m \in 1..(n - 1) : trace[StatusSeq[m] + 1].ev = "sleep"

\* pending, pending, complete with five attempts allowed: success after
\* three observations and two sleeps.
C1_Witness ==
    /\ cfg.maxAttempts = 5
    /\ Len(StatusSeq) = 3
    /\ Observed(1).resp.status = "pending"
    /\ Observed(2).resp.status = "pending"
    /\ Observed(3).ok /\ Observed(3).resp.status = "complete"
    /\ waitRet = Succeeded
    /\ Cardinality(Sleeps) = 2

(***************************************************************************)
(* C2  WaitForProof never makes more than maxAttempts status calls.  When  *)
(* the first maxAttempts observations are all "pending" or "processing" it *)
(* returns the polling-timeout error naming maxAttempts, after exactly     *)
(* maxAttempts observations, and returns no status.                        *)
(***************************************************************************)
C2_BoundedPolling ==
    WaitEntered =>
        /\ Len(StatusSeq) <= cfg.maxAttempts
        /\ ( /\ Len(StatusSeq) = cfg.maxAttempts
             /\ \A n \in 1..Len(StatusSeq) : InProgress(Observed(n))
             /\ pc = "done" )
           => /\ waitRet = WaitFailure("max polling attempts reached", <<cfg.maxAttempts>>)
              /\ status = NoStatus
              /\ result.state = "error"
        /\ (waitRet.state = "error" /\ waitRet.err.cause = "max polling attempts reached")
           => /\ Len(StatusSeq) = cfg.maxAttempts
              /\ \A n \in 1..Len(StatusSeq) : InProgress(Observed(n))

\* processing, pending, processing with three attempts allowed.
C2_Witness ==
    /\ cfg.maxAttempts = 3
    /\ Len(StatusSeq) = 3
    /\ Observed(1).resp.status = "processing"
    /\ Observed(2).resp.status = "pending"
    /\ Observed(3).resp.status = "processing"
    /\ waitRet = WaitFailure("max polling attempts reached", <<3>>)

(***************************************************************************)
(* C3  Observing "failed" ends WaitForProof at once with the error that    *)
(* carries the remote error message: nothing follows the observation, no   *)
(* sleep and no further status call, and no status is returned.            *)
(***************************************************************************)
C3_FailedEndsAtOnce ==
    \A i \in Observations :
        trace[i].resp.status = "failed"
        => /\ i = Len(trace)
           /\ pc = "done"
           /\ waitRet = WaitFailure("proof generation failed", <<trace[i].resp.error>>)
           /\ status = NoStatus
           /\ result.state = "error"

\* pending, then failed with the message "boom".
C3_Witness ==
    /\ Len(StatusSeq) = 2
    /\ Observed(1).resp.status = "pending"
    /\ Observed(2).ok /\ Observed(2).resp.status = "failed"
    /\ Observed(2).resp.error = "boom"
    /\ waitRet = WaitFailure("proof generation failed", <<"boom">>)

(***************************************************************************)
(* C4  Observing a status other than "complete", "completed", "failed",    *)
(* "pending" and "processing", the empty one included, ends WaitForProof   *)
(* at once with the unknown-status error; a status call is followed by     *)
(* anything only when it observed "pending" or "processing".               *)
(***************************************************************************)
C4_UnknownEndsAtOnce ==
    /\ \A i \in Observations :
          trace[i].resp.status \notin {"complete", "completed", "failed",
                                       "pending", "processing"}
          => /\ i = Len(trace)
             /\ pc = "done"
             /\ waitRet = WaitFailure("unknown job status", <<trace[i].resp.status>>)
             /\ status = NoStatus
    /\ \A i \in StatusCalls : i < Len(trace) => InProgress(trace[i])
    /\ pc = "sleep" => InProgress(trace[Len(trace)])

\* processing, then a status with no name.
C4_Witness ==
    /\ Len(StatusSeq) = 2
    /\ Observed(1).resp.status = "processing"
    /\ Observed(2).ok /\ Observed(2).resp.status = ""
    /\ waitRet = WaitFailure("unknown job status", <<"">>)

(***************************************************************************)
(* C5  The polling loop is the only retry.  A status call that fails ends  *)
(* WaitForProof at once with that error.  So does a GetProofStatus that    *)
(* returns its error before it calls out (a job identifier that names no   *)
(* number, a request that cannot be marshalled or built): the wait ends at *)
(* its first attempt with that error, having made no status call, no       *)
(* observation and no sleep, however many attempts it was allowed.  A      *)
(* failed RequestProof, GetTransaction or GetTransactionReceipt is never   *)
(* issued again, and each of the three is issued at most once in a run.    *)
(***************************************************************************)
C5_NoOtherRetry ==
    /\ \A i \in DOMAIN trace :
          (trace[i].ev = "call" /\ ~trace[i].ok)
          => /\ i = Len(trace)
             /\ pc = "done"
             /\ result.state = "error"
             /\ result.err.cause = trace[i].outcome
             /\ (trace[i].method = "log_queryProof" /\ WaitEntered)
                => waitRet = WaitFailure(trace[i].outcome, <<>>)
    /\ \A k \in DOMAIN invocations :
          ( /\ WaitEntered
            /\ invocations[k].op = "GetProofStatus"
            /\ RequestBuilt("GetProofStatus", invocations[k].arg) # "none" )
          => /\ k = Len(invocations)
             /\ Cardinality({j \in DOMAIN invocations :
                                invocations[j].op = "GetProofStatus"}) = 1
             /\ StatusCalls = {}
             /\ Sleeps = {}
             /\ attempt = 0
             /\ pc = "done"
             /\ waitRet = WaitFailure(RequestBuilt("GetProofStatus", invocations[k].arg),
                                      <<>>)
             /\ result = waitRet
    /\ \A m \in {"log_requestProof", "eth_getTransactionByHash",
                 "eth_getTransactionReceipt"} : Cardinality(CallsOf(m)) <= 1
    /\ \A n \in 2..Len(StatusSeq) : InProgress(Observed(n - 1))

\* The service handed out the job identifier "abc" and the run was to wait
\* with two attempts allowed: the first GetProofStatus refused the
\* identifier and the wait ended there, the proof request being the only
\* event of the run.
C5_Witness ==
    /\ WaitEntered
    /\ cfg.maxAttempts = 2
    /\ jobID = <<"a", "b", "c">>
    /\ Len(invocations) = 2
    /\ invocations[2] = [op |-> "GetProofStatus", arg |-> <<jobID>>]
    /\ Len(trace) = 1
    /\ trace[1].method = "log_requestProof"
    /\ waitRet = WaitFailure("invalid job ID", <<>>)
    /\ pc = "done"

(***************************************************************************)
(* What a resolution by hash shows                                         *)
(***************************************************************************)
\* processTransactionByHash fetched the transaction and the receipt and
\* went through its resolution.
Resolved ==
    /\ flags.txHash # <<>>
    /\ \E i \in CallsOf("eth_getTransactionReceipt") : trace[i].ok
    /\ pc # "resolve"

\* The number of logs of the fetched receipt.
K == Len(receipt.logs)

\* The block number and transaction index of the receipt convert.
ReceiptNumbersValid ==
    /\ HexToUint64(receipt.blockNumber).ok
    /\ HexToUint64(receipt.transactionIndex).ok

\* The fields of the transaction and the receipt other than the logs are
\* valid.
FieldsValid ==
    /\ ReceiptNumbersValid
    /\ tx.chainId # <<>>
    /\ HexToUint64(tx.chainId).ok

ProofRequested == CallsOf("log_requestProof") # {}

\* A text with its letters in lower case.
Folded(t) == [i \in 1..Len(t) |-> ToLower(t[i])]

\* The positions (from 1) of the logs that have a topic and whose first
\* topic is, but for the case of its letters, the hash of the signature.
Matching(sig) ==
    {j \in 1..K : /\ Len(receipt.logs[j].topics) >= 1
                  /\ Folded(receipt.logs[j].topics[1])
                       = Folded(GetEventSignatureHash(sig))}

\* The log indexes below k.
Below(k) == {NatToNum(j) : j \in 0..(k - 1)}

(***************************************************************************)
(* C6  In a resolution by hash, a receipt with zero logs always fails with *)
(* the no-logs error, whatever the log index, the event signature, the     *)
(* chain ID (present or absent) and the block number and transaction index *)
(* are.  The code converts the block number and the transaction index and *)
(* reads the chain ID before it looks at the logs, so this does not hold.  *)
(***************************************************************************)
C6_ZeroLogsAlwaysNoLogs ==
    (Resolved /\ K = 0)
    => result = Failed(Err("no logs found in transaction receipt", "none", <<>>))

(***************************************************************************)
(* C7  In a resolution by hash with valid transaction and receipt fields,  *)
(* a receipt of k logs (k >= 1; a receipt without logs is the case of C6)  *)
(* and a log index flag that reads as a 32-bit index i: log i is selected  *)
(* if and only if 0 <= i < k, and when i >= k the run fails with the       *)
(* index-out-of-range error that cites i and k and sends no proof request. *)
(* This holds on the 64-bit builds.  On the 386 build int(i) is negative   *)
(* for i >= 2^31, the comparison with k lets it through, and the proof is  *)
(* requested for a log the receipt does not have.                          *)
(***************************************************************************)
C7_IndexSelectsIffInRange ==
    LET p == ParseUint(flags.logIndex, 32)
    IN  (Resolved /\ FieldsValid /\ K >= 1 /\ flags.logIndex # <<>> /\ p.ok)
        => /\ coords.built <=> p.val \in Below(K)
           /\ coords.built => coords.logIndex = p.val
           /\ p.val \notin Below(K)
              => /\ result = Failed(Err("log index is out of range", "none",
                                        <<p.val, K>>))
                 /\ ~ProofRequested

(***************************************************************************)
(* C8  In a resolution by hash with valid fields, at least one log, an     *)
(* event signature and no log index flag: the selected log index is the    *)
(* smallest position whose log has a topic and whose first topic equals,   *)
(* ignoring case, the Keccak-256 hash of the signature without the white   *)
(* space around it, which is what the code hashes; logs without topics are *)
(* passed over.  When there is no such log the run fails with the          *)
(* no-matching-log error, which cites the signature as it was given, and   *)
(* sends no proof request.                                                 *)
(***************************************************************************)
C8_SignatureSelectsFirstMatch ==
    LET M == Matching(TrimSpace(flags.eventSignature))
    IN  (Resolved /\ FieldsValid /\ K >= 1
           /\ flags.logIndex = <<>> /\ flags.eventSignature # <<>>)
        => IF M # {}
           THEN /\ coords.built
                /\ \E j \in M : /\ \A m \in M : j <= m
                                /\ coords.logIndex = NatToNum(j - 1)
           ELSE /\ ~coords.built
                /\ result = Failed(Err("no log found with event signature", "none",
                                       <<flags.eventSignature>>))
                /\ ~ProofRequested

\* The signature, given with a space on either side, matches only the second
\* of three logs, in upper case, after a log without topics: index 1 is
\* selected, though no topic is the hash of the signature as it was given.
C8_Witness ==
    /\ Resolved /\ FieldsValid
    /\ K = 3
    /\ flags.logIndex = <<>>
    /\ flags.eventSignature = SigPadded
    /\ receipt.logs[1].topics = <<>>
    /\ receipt.logs[2].topics = <<TopicTransferUpper>>
    /\ Matching(SigTransfer) = {2}
    /\ Matching(SigPadded) = {}
    /\ coords.built
    /\ coords.logIndex = NatToNum(1)

\* The claim as it was made: the topic is compared with the hash of the
\* signature as it was given.
C8_HashOfSignatureAsGiven ==
    LET M == Matching(flags.eventSignature)
    IN  (Resolved /\ FieldsValid /\ K >= 1
           /\ flags.logIndex = <<>> /\ flags.eventSignature # <<>>)
        => IF M # {}
           THEN /\ coords.built
                /\ \E j \in M : /\ \A m \in M : j <= m
                                /\ coords.logIndex = NatToNum(j - 1)
           ELSE /\ ~coords.built
                /\ result = Failed(Err("no log found with event signature", "none",
                                       <<flags.eventSignature>>))
                /\ ~ProofRequested

(***************************************************************************)
(* C9  In a resolution by hash with valid fields and at least one log, the *)
(* selection follows a strict priority: a log index flag decides alone,    *)
(* whatever the event signature matches; the event signature decides only  *)
(* when there is no log index flag; with neither, log index 0 is selected. *)
(***************************************************************************)
C9_SelectionPriority ==
    LET p == ParseUint(flags.logIndex, 32)
        M == Matching(TrimSpace(flags.eventSignature))
    IN  (Resolved /\ FieldsValid /\ K >= 1)
        => /\ flags.logIndex # <<>>
              => /\ (p.ok /\ p.val \in Below(K)) => coords.built
                 /\ coords.built => p.ok /\ coords.logIndex = p.val
                 /\ ~coords.built
                    => result.err.kind = IF p.ok THEN "log index is out of range"
                                         ELSE "invalid log index"
           /\ (flags.logIndex = <<>> /\ flags.eventSignature # <<>>)
              => IF M # {}
                 THEN coords.built /\ coords.logIndex \in {NatToNum(j - 1) : j \in M}
                 ELSE ~coords.built
                      /\ result.err.kind = "no log found with event signature"
           /\ (flags.logIndex = <<>> /\ flags.eventSignature = <<>>)
              => coords.built /\ coords.logIndex = NatToNum(0)

\* Log index 0 with a signature that matches only the second log: 0 wins.
C9_Witness ==
    /\ Resolved /\ FieldsValid
    /\ K = 2
    /\ flags.logIndex = <<"0">>
    /\ flags.eventSignature = SigApproval
    /\ Matching(SigApproval) = {2}
    /\ coords.built
    /\ coords.logIndex = NatToNum(0)

(***************************************************************************)
(* C10  In a resolution by hash, the chain ID of a proof request is always *)
(* the value read from the fetched transaction.  When the transaction has  *)
(* no chain ID the run fails and sends no proof request, nothing is taken  *)
(* from the --chain-id flag or guessed; the failure is the missing-chain-ID *)
(* error whenever the block number and transaction index of the receipt,   *)
(* which the code converts first, are valid.                               *)
(***************************************************************************)
C10_ChainIDFromTransaction ==
    /\ flags.txHash # <<>>
       => \A i \in CallsOf("log_requestProof") :
             /\ tx.chainId # <<>>
             /\ HexToUint64(tx.chainId).ok
             /\ trace[i].params[1] = HexToUint64(tx.chainId).val
    /\ (Resolved /\ tx.chainId = <<>>)
       => /\ ~coords.built
          /\ ~ProofRequested
          /\ result.state = "error"
          /\ ReceiptNumbersValid
             => result = Failed(Err("chain ID not found in transaction", "none", <<>>))

\* A transaction without chain ID, resolved with --chain-id 5 on the command
\* line: the missing-chain-ID error, and no request.
C10_Witness ==
    /\ Resolved
    /\ tx.chainId = <<>>
    /\ flags.chainID = <<"5">>
    /\ K = 1
    /\ result = Failed(Err("chain ID not found in transaction", "none", <<>>))
    /\ ~ProofRequested

(***************************************************************************)
(* C11  On both resolution paths the coordinates passed to RequestProof    *)
(* are the values the path built, and they are in range: chain ID and      *)
(* block number below 2^64, transaction index and log index below 2^32.    *)
(* The path by hash converts the receipt's transaction index to 64 bits    *)
(* and passes uint(txIdx) on with no check against 2^32, so this does not  *)
(* hold: a 64-bit build sends the index as it is, the 386 build sends its  *)
(* low 32 bits.                                                            *)
(***************************************************************************)
C11_CoordinatesInRange ==
    \A i \in CallsOf("log_requestProof") :
        /\ trace[i].params = <<coords.chainID, coords.blockNumber,
                               coords.txIndex, coords.logIndex>>
        /\ FitsBits(trace[i].params[1], 64)
        /\ FitsBits(trace[i].params[2], 64)
        /\ FitsBits(trace[i].params[3], 32)
        /\ FitsBits(trace[i].params[4], 32)

(***************************************************************************)
(* What the conversion of the receipt's block number shows                 *)
(***************************************************************************)
\* The block number text of the receipt without one leading "0x".
BlockText ==
    IF Has0xPrefix(receipt.blockNumber)
    THEN SubSeq(receipt.blockNumber, 3, Len(receipt.blockNumber))
    ELSE receipt.blockNumber

IsHexDigitChar(c) ==
    c \in {"0", "1", "2", "3", "4", "5", "6", "7", "8", "9",
           "a", "b", "c", "d", "e", "f", "A", "B", "C", "D", "E", "F"}
\* One or more base-16 digits and nothing else.
AllHexDigits(t) == t # <<>> /\ \A i \in 1..Len(t) : IsHexDigitChar(t[i])

\* The conversion of the block number failed with this cause.
BlockNumberError(cause) ==
    /\ result = Failed(Err("invalid block number in receipt", cause, <<>>))
    /\ ~coords.built
    /\ HexToUint64(receipt.blockNumber).val = <<>>

\* The block number was converted to n: the rest of the receipt and the
\* transaction being valid, the coordinates carry it.
BlockNumberIs(n) ==
    /\ result.err.kind # "invalid block number in receipt"
    /\ HexToUint64(receipt.blockNumber) = [ok |-> TRUE, val |-> n, err |-> "none"]
    /\ (FieldsValid /\ K >= 1 /\ flags.logIndex = <<>> /\ flags.eventSignature = <<>>)
       => coords.built /\ coords.blockNumber = n

(***************************************************************************)
(* C12  HexToUint64, as the resolution applies it to the receipt's block   *)
(* number: "0x" followed by the base-16 numeral of an n below 2^64 gives   *)
(* n and no error ("0x0" gives 0); a numeral of 2^64 or more gives the     *)
(* overflow error and 0; a text that, after one leading "0x" and one       *)
(* leading sign, is empty or holds a character that is no base-16 digit    *)
(* gives the invalid-hex error and 0.  A sign is accepted: "+" and a       *)
(* digit string give its value, "-" and zero give 0, "-" and any other     *)
(* value give the overflow error.                                          *)
(***************************************************************************)
C12_HexToUint64 ==
    Resolved =>
        LET signed == BlockText # <<>> /\ Head(BlockText) \in {"+", "-"}
            body   == IF signed THEN Tail(BlockText) ELSE BlockText
        IN  /\ \A n \in NumSamples :
                  receipt.blockNumber = Quantity(n) => BlockNumberIs(n)
            /\ \A n \in Over64 :
                  receipt.blockNumber = Quantity(n) => BlockNumberError("too large")
            /\ ~AllHexDigits(body) => BlockNumberError("invalid hex")
            /\ (AllHexDigits(body) /\ signed /\ Head(BlockText) = "-")
               => IF \A i \in 1..Len(body) : body[i] = "0"
                  THEN BlockNumberIs(<<>>)
                  ELSE BlockNumberError("too large")
            /\ (AllHexDigits(body) /\ signed /\ Head(BlockText) = "+")
               => BlockNumberIs(StripZeros(HexDigits(body)))

\* 2^64 - 1 written as "0xffffffffffffffff" comes back as 2^64 - 1.
C12_Witness ==
    /\ Resolved
    /\ receipt.blockNumber = <<"0", "x">> \o [i \in 1..16 |-> "f"]
    /\ coords.built
    /\ coords.blockNumber = [i \in 1..16 |-> 15]

\* The claim as it was made: every text that is not a base-16 numeral,
\* with or without "0x", is refused.
C12_InvalidHexRefused ==
    (Resolved /\ ~AllHexDigits(BlockText))
    => result.err.kind = "invalid block number in receipt"

\* RequestProof received a decoded result.
Answered == answer.outcome = "ok"

\* A natural number that float64 holds exactly: nothing but zeros after its
\* 53 leading binary digits.
ExactFloat64(n) ==
    LET bs == BitsOf(n) IN \A i \in 54..Len(bs) : bs[i] = 0

\* The decimal digits of a JSON number, with its sign.
DigitsOf(num) == (IF num.neg THEN <<"-">> ELSE <<>>) \o num.int

(***************************************************************************)
(* C13  RequestProof's normalisation of the result.  A JSON string is the  *)
(* job identifier as it stands.  A JSON number n that is integral and that *)
(* float64 holds exactly (every integer up to 2^53) gives the decimal      *)
(* digits of n, the identifier a JSON string of those digits gives.  Any   *)
(* JSON number gives an identifier that GetProofStatus parses as a finite  *)
(* number.  A result of any other type (null, boolean, object, array)      *)
(* ends the run with the unexpected-result-type error and no identifier.   *)
(***************************************************************************)
C13_JobIDNormalized ==
    Answered =>
        /\ answer.type = "string" => jobID = answer.str
        /\ answer.type = "number" =>
              /\ ParseFloatOk(jobID) /\ ~IsSpecialFloat(jobID)
              /\ (answer.num.frac # "half" /\ ExactFloat64(NumOfDec(answer.num.int, <<>>)))
                 => jobID = DigitsOf(answer.num)
        /\ answer.type \notin {"string", "number"} =>
              /\ jobID = <<>>
              /\ result = Failed(Err("failed to request proof", "unexpected result type", <<>>))

\* The result 12345.0 was normalised to "12345".
C13_Witness ==
    /\ Answered
    /\ answer.type = "number"
    /\ answer.num = JSONNumber(FALSE, JobDigits, "zero")
    /\ jobID = JobDigits

\* The claim as it was made: every integral JSON number gives the job
\* identifier that the string of its digits gives.
C13_NumberAndStringAgree ==
    (Answered /\ answer.type = "number" /\ answer.num.frac # "half")
    => jobID = DigitsOf(answer.num)

(***************************************************************************)
(* What the API operations send                                            *)
(***************************************************************************)
\* The calls made to the proving service, in the order they were made.
ServiceCalls == InOrder(CallsOf("log_requestProof") \cup CallsOf("log_queryProof"))

\* The method an operation calls.
MethodOf(op) == IF op = "RequestProof" THEN "log_requestProof" ELSE "log_queryProof"

\* A text that names a finite number: what strconv.ParseFloat accepts and
\* json.Marshal then encodes.
FiniteNumber(s) == ParseFloatOk(s) /\ ~IsSpecialFloat(s)

\* An invocation whose request can be built: the service URL parses and,
\* for GetProofStatus, the job identifier names a finite number.
Sendable(inv) ==
    /\ cfg.apiURL = DefaultAPIURL
    /\ inv.op = "GetProofStatus" => FiniteNumber(inv.arg[1])

\* WaitForProof left its loop without a terminal status.
TimedOut == waitRet = WaitFailure("max polling attempts reached", <<cfg.maxAttempts>>)

\* What a sendable invocation puts on the wire: the coordinates, or the
\* float64 the job identifier names in the digits json.Marshal writes.
WireOf(inv) == IF inv.op = "RequestProof" THEN inv.arg ELSE <<WireJobID(inv.arg[1])>>

\* The invocations of GetProofStatus.
StatusInvocations == SelectSeq(invocations, LAMBDA inv : inv.op = "GetProofStatus")

(***************************************************************************)
(* C14  An invocation of RequestProof or GetProofStatus issues one         *)
(* outbound call when its request can be built, and none when it cannot:   *)
(* GetProofStatus with a job identifier that names no finite number, and   *)
(* either operation with a service URL that does not parse, return their   *)
(* error without calling out.  The calls made are, in order, those of the  *)
(* invocations whose request could be built, each with the coordinates of  *)
(* its invocation or the number its job identifier names: nothing is       *)
(* answered from a cache and nothing is sent                               *)
(* twice.  WaitForProof invokes GetProofStatus once per attempt: as often  *)
(* as its loop counter tells, and once more while an attempt is under way  *)
(* or has ended the loop.                                                  *)
(***************************************************************************)
C14_OneCallPerBuiltRequest ==
    LET sent == SelectSeq(invocations, Sendable)
    IN  /\ Len(ServiceCalls) = Len(sent)
        /\ \A k \in 1..Len(sent) :
              /\ trace[ServiceCalls[k]].method = MethodOf(sent[k].op)
              /\ trace[ServiceCalls[k]].params = WireOf(sent[k])
        /\ WaitEntered =>
              Len(StatusInvocations) = attempt + (IF pc = "poll" \/ TimedOut THEN 0 ELSE 1)

\* A wait made three attempts, each with one call.
C14_Witness ==
    /\ WaitEntered
    /\ pc = "done"
    /\ Len(StatusInvocations) = 3
    /\ Len(StatusSeq) = 3
    /\ Len(ServiceCalls) = 4

\* The claim as it was made: every invocation issues one call.
C14_OneCallPerInvocation == Len(ServiceCalls) = Len(invocations)

\* GetProofStatus, called by the status command, or WaitForProof returned a
\* status and no error.
StatusReturned ==
    \/ waitRet = Succeeded
    \/ flags.command = "status" /\ pc = "done" /\ result = Succeeded

(***************************************************************************)
(* C15  A status returned without error carries a proof exactly when it    *)
(* is completed and an error message exactly when it is failed; a success  *)
(* of WaitForProof carries a proof that is not empty.                      *)
(***************************************************************************)
C15_ProofIffCompleted ==
    StatusReturned =>
        /\ status.proof # "" <=> status.status \in {"complete", "completed"}
        /\ status.error # "" <=> status.status = "failed"
        /\ waitRet = Succeeded => status.proof # ""

(***************************************************************************)
(* The order of a run of the request command                               *)
(***************************************************************************)
\* The configuration loaded and passes Validate.
ConfigValid ==
    cfg.loaded /\ cfg.apiKey # "" /\ cfg.maxAttempts > 0 /\ cfg.interval > 0

\* The invocations of RequestProof.
ProofInvocations == SelectSeq(invocations, LAMBDA inv : inv.op = "RequestProof")

\* The i-th event of the run is an answered call of the method.
AnsweredAt(i, method) ==
    i <= Len(trace) /\ trace[i].ev = "call" /\ trace[i].method = method /\ trace[i].ok

(***************************************************************************)
(* C16  A run of the request command resolves, then requests, then         *)
(* optionally waits.  RequestProof is invoked at most once, and only with  *)
(* a loaded and valid configuration and with the coordinates a successful  *)
(* resolution built: with a hash, GetTransaction was answered first, then  *)
(* GetTransactionReceipt, then the log was selected, and these two are the *)
(* only earlier events; with explicit flags all four parsed and nothing    *)
(* was sent before.  GetProofStatus is invoked only with --wait, only      *)
(* after RequestProof returned a job identifier, and only with that        *)
(* identifier; every status call comes after the proof request and names   *)
(* the number GetProofStatus parsed from that identifier.                  *)
(***************************************************************************)
C16_ResolveRequestWait ==
    flags.command = "request" =>
        /\ Len(ProofInvocations) <= 1
        /\ Cardinality(CallsOf("log_requestProof")) <= 1
        /\ Len(ProofInvocations) = 1 =>
              /\ ConfigValid
              /\ coords.built
              /\ ProofInvocations[1].arg = <<coords.chainID, coords.blockNumber,
                                             UintOf(coords.txIndex), UintOf(coords.logIndex)>>
              /\ invocations[1].op = "RequestProof"
              /\ IF flags.txHash # <<>>
                 THEN /\ AnsweredAt(1, "eth_getTransactionByHash")
                      /\ AnsweredAt(2, "eth_getTransactionReceipt")
                      /\ tx = node.tx /\ receipt = node.receipt
                      /\ Resolve(tx, receipt, flags.logIndex, flags.eventSignature)
                         = [ok |-> TRUE, err |-> NoErr, coords |-> coords]
                      /\ \A i \in CallsOf("log_requestProof") : i = 3
                 ELSE /\ ParseExplicit(flags).ok
                      /\ ParseExplicit(flags).coords = coords
                      /\ \A i \in CallsOf("log_requestProof") : i = 1
        /\ Len(StatusInvocations) > 0 =>
              /\ flags.wait
              /\ \E i \in CallsOf("log_requestProof") :
                    /\ trace[i].ok
                    /\ \A j \in CallsOf("log_queryProof") : i < j
              /\ Answered /\ answer.type \in {"string", "number"}
              /\ jobID = JobIDOf(answer)
              /\ \A k \in 1..Len(StatusInvocations) : StatusInvocations[k].arg = <<jobID>>
              /\ \A j \in CallsOf("log_queryProof") : trace[j].params = <<WireJobID(jobID)>>
        /\ (pc \in {"poll", "sleep"} \/ waitRet # Running) =>
              flags.wait /\ Len(ProofInvocations) = 1

\* A run by hash that waited: transaction, receipt, proof request, then a
\* status call with the job identifier the request returned.
C16_Witness ==
    /\ flags.command = "request" /\ flags.txHash # <<>> /\ flags.wait
    /\ AnsweredAt(1, "eth_getTransactionByHash")
    /\ AnsweredAt(2, "eth_getTransactionReceipt")
    /\ AnsweredAt(3, "log_requestProof")
    /\ AnsweredAt(4, "log_queryProof")
    /\ jobID = JobDigits
    /\ invocations[2] = [op |-> "GetProofStatus", arg |-> <<JobDigits>>]
    /\ trace[4].params = <<JobDigits>>

(***************************************************************************)
(* C17  WaitForProof sleeps once after every observation of "pending" or   *)
(* "processing" and at no other time, each sleep for the configured        *)
(* interval.  A sleep that is not the last event is followed by the next   *)
(* status call.  A wait that ended on a terminal status or an error made   *)
(* one sleep less than it made status calls, and its last event is no      *)
(* sleep; a wait that ended in the polling timeout made maxAttempts        *)
(* status calls and as many sleeps, the last of them after the last        *)
(* observation.                                                            *)
(***************************************************************************)
C17_SleepAfterEachInProgress ==
    WaitEntered =>
        /\ \A i \in Sleeps :
              /\ i - 1 \in StatusCalls /\ InProgress(trace[i - 1])
              /\ trace[i].params = <<cfg.interval>>
              /\ i < Len(trace) => i + 1 \in StatusCalls
        /\ \A j \in StatusCalls :
              InProgress(trace[j]) => IF j < Len(trace) THEN j + 1 \in Sleeps
                                                        ELSE pc = "sleep"
        /\ (pc = "done" /\ TimedOut) =>
              /\ Cardinality(StatusCalls) = cfg.maxAttempts
              /\ Cardinality(Sleeps) = cfg.maxAttempts
              /\ Len(trace) \in Sleeps
        /\ (pc = "done" /\ ~TimedOut) =>
              /\ Len(trace) \notin Sleeps
              /\ StatusCalls # {} => Cardinality(Sleeps) = Cardinality(StatusCalls) - 1
              /\ StatusCalls = {} => Sleeps = {}

\* A wait of two attempts timed out after two observations and two sleeps.
C17_Witness ==
    /\ pc = "done" /\ TimedOut
    /\ cfg.maxAttempts = 2
    /\ Cardinality(StatusCalls) = 2
    /\ Cardinality(Sleeps) = 2
    /\ Len(trace) \in Sleeps

\* The claim as it was made: every sleep is followed by a further
\* observation, so a finished wait of n observations slept at most n - 1
\* times.
C17_SleepsOnlyBetweenAttempts ==
    (WaitEntered /\ pc = "done") =>
        /\ \A i \in Sleeps : i + 1 \in StatusCalls
        /\ StatusCalls # {} => Cardinality(Sleeps) <= Cardinality(StatusCalls) - 1

(***************************************************************************)
(* C18  A run of the request or status command that ends in an error has,  *)
(* without --debug, written nothing to standard output.                    *)
(***************************************************************************)
C18_NoOutputOnError ==
    (pc = "done" /\ result.state = "error" /\ ~cfg.debug) => Len(stdout) = 0

\* The run printed a proof.
ProofPrinted == \E i \in DOMAIN stdout : stdout[i].text = "proof"

(***************************************************************************)
(* C19  For a status that carries a proof, the status command prints the   *)
(* proof exactly when WaitForProof would take the status for success,      *)
(* that is for "complete" and for "completed".                             *)
(***************************************************************************)
C19_StatusCommandKnowsBothSpellings ==
    (flags.command = "status" /\ pc = "done" /\ result = Succeeded /\ status.proof # "")
    => (ProofPrinted <=> Decide("ok", status.status) = "success")

(***************************************************************************)
(* C20  With a transaction hash, the --chain-id, --block-number and        *)
(* --tx-index flags are not read.  A proof request carries the chain ID of *)
(* the transaction and the block number and transaction index of the       *)
(* receipt, whatever the three flags hold, and values the explicit path    *)
(* would refuse do not stop the run.  A transaction without chain ID, its  *)
(* receipt's numbers being valid, ends the run with the missing-chain-ID   *)
(* error and without a proof request, also when --chain-id is given.  A    *)
(* hash without RPC URL ends the run before anything is sent.              *)
(***************************************************************************)
C20_ExplicitFlagsIgnoredWithHash ==
    (flags.command = "request" /\ flags.txHash # <<>>) =>
        /\ (flags.rpcURL = "" /\ ConfigValid /\ pc = "done") =>
              /\ result = Failed(Err("RPC URL is required", "none", <<>>))
              /\ Len(trace) = 0
              /\ Len(invocations) = 0
        /\ \A i \in CallsOf("log_requestProof") :
              /\ node.tx.chainId # <<>>
              /\ trace[i].params[1] = HexToUint64(node.tx.chainId).val
              /\ trace[i].params[2] = HexToUint64(node.receipt.blockNumber).val
              /\ trace[i].params[3] = UintOf(HexToUint64(node.receipt.transactionIndex).val)
        /\ (Resolved /\ ReceiptNumbersValid /\ node.tx.chainId = <<>>) =>
              /\ result = Failed(Err("chain ID not found in transaction", "none", <<>>))
              /\ ~ProofRequested
              /\ Len(invocations) = 0
        /\ (/\ Resolved /\ ReceiptNumbersValid
            /\ node.tx.chainId # <<>> /\ HexToUint64(node.tx.chainId).ok
            /\ K >= 1 /\ flags.logIndex = <<>> /\ flags.eventSignature = <<>>) =>
              coords.built /\ (pc = "requestProof" \/ Len(ProofInvocations) = 1)

\* A run by hash with --chain-id x, --block-number -1 and --tx-index 2^32
\* sent its proof request with the numbers of the node.
C20_Witness ==
    /\ flags.txHash # <<>>
    /\ flags.chainID = <<"x">> /\ flags.blockNumber = <<"-", "1">> /\ flags.txIndex = D_2p32
    /\ \E i \in CallsOf("log_requestProof") :
          /\ trace[i].ok
          /\ trace[i].params = <<NatToNum(1), NatToNum(16), <<>>, <<>>>>
    /\ result = Succeeded

============================================================================
